---- MODULE Spec2Model ----
(***************************************************************************)
(* Job lifecycle and reconciliation engine of Latentia.                    *)
(*                                                                         *)
(* The Job Store (tables generations and outputs) is written by the manual *)
(* resync handler (POST /api/generations/[id]/sync), by the stuck-job      *)
(* sweep (QUERY 6 of SUPABASE_CHECK_STUCK_GENERATIONS.sql) and by the      *)
(* delete handler (DELETE /api/generations/[id]).  Every awaited database  *)
(* or provider call of a handler is one step, so handlers interleave at    *)
(* exactly the points where the code awaits.                               *)
(*                                                                         *)
(* The feed (GET /api/generations) is read page by page with keyset        *)
(* cursors.  The client view is the infinite query cache of one session,   *)
(* written by refetches (mergeGenerationsData), by the realtime handler    *)
(* and by the single-generation fetch; every request is answered in one    *)
(* step and delivered in a later one, so answers can arrive stale.         *)
(*                                                                         *)
(* Time is in milliseconds.  Texts are sequences of words.                 *)
(***************************************************************************)
EXTENDS Integers, Sequences, FiniteSets, TLC

----------------------------------------------------------------------------
(* Bounds of the model *)

MaxJobs == 1
MaxProcs == 2
MaxTicks == 2
MaxSweeps == 2
MaxUrls == 2
MaxMutations == 2
MaxFeedJobs == 3
MaxLimit == 2
MaxEventJobs == 2
MaxTriggers == 2
MaxBytes == 3
MaxMergeRows == 2

----------------------------------------------------------------------------
(* Program constants *)

TWO_MINUTES == 2 * 60 * 1000
TEN_SECONDS == 10000
DEBOUNCE_MS == 3000
NoTimeout == 0 - 1

Users == {"u1", "u2"}
NoUser == "anonymous"
Owner == "u1"
ClientSession == "s1"

JobIds == 1..MaxJobs
FeedIds == 1..MaxFeedJobs
Procs == 1..MaxProcs
Deleters == {1}
TickSteps == {1, TWO_MINUTES}

NoText == <<>>
TimeoutError ==
  <<"Processing", "timed", "out", "-", "exceeded", "Vercel", "function",
    "execution", "limit">>
NoOutputsError ==
  <<"Replicate", "succeeded", "but", "no", "output", "URLs", "found">>
ProviderError == <<"NSFW", "content", "detected">>

TerminalStatuses == {"completed", "failed", "cancelled"}

VARIABLES
  generations,   \* table generations: id -> row
  outputs,       \* table outputs: rows in insertion order
  prediction,    \* the provider's prediction of each job
  rs,            \* resync handler invocations
  dl,            \* delete handler invocations
  events,        \* realtime change events published for table generations
  now,           \* wall clock, ms
  ticks,         \* number of clock advances so far
  sweepCount,    \* number of sweeps executed so far
  batches,       \* per job: number of createMany batches inserted
  statusChanges, \* per job: number of changes of the status column
  fg,            \* the feed read request being answered, with its answer
  walk,          \* a client paging through the feed with nextCursor
  infinite,      \* query cache ['generations', 'infinite', sessionId]
  regular,       \* query cache ['generations', sessionId]
  dismissed,     \* dismissedGenerationIds of the session
  lastEventRef,  \* key of the last realtime event handled
  fetchingRef,   \* ids with a single-generation fetch in flight
  timeoutRef,    \* due time of the scheduled debounced invalidation
  fetches,       \* per job: the single-generation request in flight
  refetch,       \* the infinite query's request in flight
  viewer,        \* the session page running the regular query (useGenerations)
  mut,           \* create requests of the dispatcher mutation
  ref,           \* a reference image on its way to storage and back
  sub,           \* the realtime subscription of the hook (useGenerationsRealtime)
  handled        \* events the realtime callback let through, as triples

storeVars ==
  <<generations, outputs, prediction, rs, dl, events, now, ticks,
    sweepCount, batches, statusChanges>>

feedVars == <<fg, walk>>

clientVars ==
  <<infinite, regular, dismissed, lastEventRef, fetchingRef, timeoutRef,
    fetches, refetch>>

viewerVars == <<viewer>>

mutVars == <<mut, ref>>

vars ==
  <<storeVars, feedVars, clientVars, viewerVars, mutVars, sub, handled>>

(* what a handler of one part leaves alone in the other parts *)
besideStore == <<feedVars, clientVars, viewerVars, mutVars, sub, handled>>

besideFeed == <<clientVars, viewerVars, mutVars, sub, handled>>

besideClient == <<storeVars, feedVars, viewerVars, mutVars, sub>>

----------------------------------------------------------------------------
(* Helpers *)

Contains(text, words) ==
  \E i \in 1..(Len(text) - Len(words) + 1) :
    SubSeq(text, i, i + Len(words) - 1) = words

IsTerminalNotCompleted(status) == status \in {"failed", "cancelled"}

IsTerminal(status) == status \in TerminalStatuses

NoParams ==
  [replicatePredictionId |-> "", error |-> NoText, syncedAt |-> -1,
   syncReason |-> "", lastStep |-> ""]

NewGeneration(id, sessionId, userId, predictionId, createdAt) ==
  [id |-> id, sessionId |-> sessionId, userId |-> userId,
   status |-> "processing", createdAt |-> createdAt,
   parameters |-> [NoParams EXCEPT !.replicatePredictionId = predictionId,
                                   !.lastStep = "generate:create"]]

OutputsOf(id) == SelectSeq(outputs, LAMBDA o : o.generationId = id)

ChangeEvent(type, id, status) ==
  [eventType |-> type, id |-> id, status |-> status]

(* the provider's result: output is null, one URL, a list of URLs or       *)
(* something else                                                          *)
UrlLists ==
  UNION {[1..n -> {"url"}] : n \in 0..MaxUrls}

ProviderOutputs ==
  {[kind |-> "null", urls |-> <<>>], [kind |-> "object", urls |-> <<>>],
   [kind |-> "string", urls |-> <<"url">>]}
  \cup {[kind |-> "array", urls |-> u] : u \in UrlLists}

ParseOutputUrls(output) ==
  IF output.kind = "array" THEN output.urls
  ELSE IF output.kind = "string" THEN output.urls
  ELSE <<>>

IdleProc ==
  [pc |-> "idle", gid |-> 0, params |-> NoParams, urls |-> <<>>,
   err |-> NoText, res |-> "none"]

Done(gid, res) == [IdleProc EXCEPT !.pc = "done", !.gid = gid, !.res = res]

IdleDeleter == [pc |-> "idle", gid |-> 0, caller |-> NoUser, res |-> "none"]

DeleterDone(res) == [IdleDeleter EXCEPT !.pc = "done", !.res = res]

IdleRequest == [pc |-> "idle"]

NoWalk == [phase |-> "none"]

Bump(counter, id, old, new) ==
  IF old # new THEN [counter EXCEPT ![id] = @ + 1] ELSE counter

----------------------------------------------------------------------------
(* Initial state: MaxJobs jobs dispatched at time 0, still processing *)

InitStoreWith(steps) ==
  /\ \E pr \in [JobIds -> {"", "pred"}], st \in [JobIds -> steps] :
       generations =
         [j \in JobIds |->
            [NewGeneration(j, "s1", Owner, pr[j], 0)
               EXCEPT !.parameters.lastStep = st[j]]]
  /\ outputs = <<>>
  /\ prediction =
       [j \in JobIds |->
          [status |-> "processing", output |-> [kind |-> "null", urls |-> <<>>],
           error |-> NoText]]
  /\ rs = [p \in Procs |-> IdleProc]
  /\ dl = [q \in Deleters |-> IdleDeleter]
  /\ events = {}
  /\ now = 0
  /\ ticks = 0
  /\ sweepCount = 0
  /\ batches = [j \in JobIds |-> 0]
  /\ statusChanges = [j \in JobIds |-> 0]

InitStore == InitStoreWith({"generate:create"})

InitFeed ==
  /\ fg = IdleRequest
  /\ walk = NoWalk

NoData == [defined |-> FALSE, pages |-> <<>>]

InitClient ==
  /\ infinite = NoData
  /\ regular = NoData
  /\ dismissed = {}
  /\ lastEventRef = <<>>
  /\ handled = {}
  /\ fetchingRef = {}
  /\ timeoutRef = NoTimeout
  /\ fetches = [j \in FeedIds |-> IdleRequest]
  /\ refetch = IdleRequest
  /\ sub = [sessionId |-> ClientSession]

(* triggers: the process requests in flight, per generation id *)
ClosedViewer ==
  [mounted |-> FALSE, cleanup |-> "idle", triggers |-> [j \in JobIds |-> 0]]

InitViewer == viewer = ClosedViewer

Mutations == 1..MaxMutations

InitMut ==
  /\ mut = [k \in Mutations |-> IdleRequest]
  /\ ref = [pc |-> "idle"]

----------------------------------------------------------------------------
(* Environment: the clock and the provider *)

Tick(d) ==
  /\ ticks < MaxTicks
  /\ now' = now + d
  /\ ticks' = ticks + 1
  /\ UNCHANGED <<generations, outputs, prediction, rs, dl, events,
                 sweepCount, batches, statusChanges>>
  /\ UNCHANGED besideStore

ProviderFinish(j, status, output, error) ==
  /\ j \in DOMAIN prediction
  /\ prediction[j].status = "processing"
  /\ prediction' =
       [prediction EXCEPT ![j] =
          [status |-> status, output |-> output, error |-> error]]
  /\ UNCHANGED <<generations, outputs, rs, dl, events, now, ticks,
                 sweepCount, batches, statusChanges>>
  /\ UNCHANGED besideStore

ProviderSucceeds(j) ==
  \E output \in ProviderOutputs : ProviderFinish(j, "succeeded", output, NoText)

ProviderFails(j) ==
  \E status \in {"failed", "canceled"}, error \in {NoText, ProviderError} :
    ProviderFinish(j, status, [kind |-> "null", urls |-> <<>>], error)

----------------------------------------------------------------------------
(* Manual resync handler, POST /api/generations/[id]/sync *)

(* authentication, findUnique, ownership and the early returns *)
ResyncCall(p, j, caller) ==
  /\ rs[p].pc = "idle"
  /\ rs' =
       [rs EXCEPT ![p] =
          IF caller = NoUser THEN Done(j, "401 Unauthorized")
          ELSE IF j \notin DOMAIN generations THEN Done(j, "404 Generation not found")
          ELSE IF generations[j].userId # caller THEN Done(j, "403 Forbidden")
          ELSE IF generations[j].parameters.replicatePredictionId = ""
            THEN Done(j, "400 Not a Replicate generation")
          ELSE IF IsTerminal(generations[j].status)
            THEN Done(j, "already in terminal state")
          ELSE [IdleProc EXCEPT !.pc = "poll", !.gid = j,
                                !.params = generations[j].parameters]]
  /\ UNCHANGED <<generations, outputs, prediction, dl, events, now, ticks,
                 sweepCount, batches, statusChanges>>
  /\ UNCHANGED besideStore

(* the branch on the prediction's status with a still-processing branch    *)
(* that stamps parameters.syncedAt                                         *)
ResyncPollStampsPending(p) ==
  /\ rs[p].pc = "poll"
  /\ LET r == prediction[rs[p].gid]
         urls == ParseOutputUrls(r.output)
     IN /\ rs' =
             [rs EXCEPT ![p] =
                IF r.status = "succeeded" THEN
                  IF Len(urls) = 0 THEN [@ EXCEPT !.pc = "updateNoOutputs"]
                  ELSE [@ EXCEPT !.pc = "createMany", !.urls = urls]
                ELSE IF r.status \in {"failed", "canceled"} THEN
                  [@ EXCEPT !.pc = "updateFailed",
                            !.err = IF r.error # NoText THEN r.error
                                    ELSE <<"Replicate", r.status>>]
                ELSE Done(rs[p].gid, "still processing")]
        /\ generations' =
             IF r.status \in {"succeeded", "failed", "canceled"}
                \/ rs[p].gid \notin DOMAIN generations
               THEN generations
               ELSE [generations EXCEPT ![rs[p].gid].parameters.syncedAt = now]
  /\ UNCHANGED <<outputs, prediction, dl, events, now, ticks,
                 sweepCount, batches, statusChanges>>
  /\ UNCHANGED besideStore

(* getPredictionStatus and the branch on its result *)
ResyncPoll(p) ==
  /\ rs[p].pc = "poll"
  /\ LET r == prediction[rs[p].gid]
         urls == ParseOutputUrls(r.output)
     IN rs' =
          [rs EXCEPT ![p] =
             IF r.status = "succeeded" THEN
               IF Len(urls) = 0 THEN [@ EXCEPT !.pc = "updateNoOutputs"]
               ELSE [@ EXCEPT !.pc = "createMany", !.urls = urls]
             ELSE IF r.status \in {"failed", "canceled"} THEN
               [@ EXCEPT !.pc = "updateFailed",
                         !.err = IF r.error # NoText THEN r.error
                                 ELSE <<"Replicate", r.status>>]
             ELSE Done(rs[p].gid, "still processing")]
  /\ UNCHANGED <<generations, outputs, prediction, dl, events, now, ticks,
                 sweepCount, batches, statusChanges>>
  /\ UNCHANGED besideStore

(* getPredictionStatus throws: the catch block answers 500 *)
ResyncPollThrows(p) ==
  /\ rs[p].pc = "poll"
  /\ rs' = [rs EXCEPT ![p] = Done(rs[p].gid, "500 Sync failed")]
  /\ UNCHANGED <<generations, outputs, prediction, dl, events, now, ticks,
                 sweepCount, batches, statusChanges>>
  /\ UNCHANGED besideStore

(* the upload loop and prisma.output.createMany; an upload that fails      *)
(* keeps the provider's URL                                                *)
OutputRecords(gid, urls, uploaded) ==
  [i \in 1..Len(urls) |->
     [generationId |-> gid,
      fileUrl |-> IF uploaded[i] THEN <<"storage", gid, i>>
                  ELSE <<"provider", urls[i]>>]]

ResyncCreateMany(p) ==
  /\ rs[p].pc = "createMany"
  /\ IF rs[p].gid \in DOMAIN generations
       THEN \E uploaded \in [1..Len(rs[p].urls) -> BOOLEAN] :
              /\ outputs' = outputs \o OutputRecords(rs[p].gid, rs[p].urls, uploaded)
              /\ batches' = [batches EXCEPT ![rs[p].gid] = @ + 1]
              /\ rs' = [rs EXCEPT ![p].pc = "updateCompleted"]
       ELSE \* foreign key outputs.generationId: the insert throws
            /\ rs' = [rs EXCEPT ![p] = Done(rs[p].gid, "500 Sync failed")]
            /\ UNCHANGED <<outputs, batches>>
  /\ UNCHANGED <<generations, prediction, dl, events, now, ticks,
                 sweepCount, statusChanges>>
  /\ UNCHANGED besideStore

(* prisma.generation.update({ where: { id } }): no condition on status *)
UpdateGeneration(p, status, parameters, res) ==
  LET gid == rs[p].gid IN
  IF gid \in DOMAIN generations
    THEN /\ generations' =
              [generations EXCEPT ![gid].status = status,
                                  ![gid].parameters = parameters]
         /\ events' = events \cup {ChangeEvent("UPDATE", gid, status)}
         /\ statusChanges' =
              Bump(statusChanges, gid, generations[gid].status, status)
         /\ rs' = [rs EXCEPT ![p] = Done(gid, res)]
    ELSE \* record to update not found: the update throws
         /\ rs' = [rs EXCEPT ![p] = Done(rs[p].gid, "500 Sync failed")]
         /\ UNCHANGED <<generations, events, statusChanges>>

ResyncUpdateCompleted(p) ==
  /\ rs[p].pc = "updateCompleted"
  /\ UpdateGeneration(p, "completed",
       [rs[p].params EXCEPT !.syncedAt = now, !.syncReason = "manual"],
       "synced completed")
  /\ UNCHANGED <<outputs, prediction, dl, now, ticks, sweepCount, batches>>
  /\ UNCHANGED besideStore

ResyncUpdateNoOutputsWithoutError(p) ==
  /\ rs[p].pc = "updateNoOutputs"
  /\ UpdateGeneration(p, "failed", [rs[p].params EXCEPT !.syncedAt = now],
       "synced failed no outputs")
  /\ UNCHANGED <<outputs, prediction, dl, now, ticks, sweepCount, batches>>
  /\ UNCHANGED besideStore

ResyncUpdateNoOutputs(p) ==
  /\ rs[p].pc = "updateNoOutputs"
  /\ UpdateGeneration(p, "failed",
       [rs[p].params EXCEPT !.error = NoOutputsError, !.syncedAt = now],
       "synced failed no outputs")
  /\ UNCHANGED <<outputs, prediction, dl, now, ticks, sweepCount, batches>>
  /\ UNCHANGED besideStore

ResyncUpdateFailed(p) ==
  /\ rs[p].pc = "updateFailed"
  /\ UpdateGeneration(p, "failed",
       [rs[p].params EXCEPT !.error = rs[p].err, !.syncedAt = now],
       "synced failed")
  /\ UNCHANGED <<outputs, prediction, dl, now, ticks, sweepCount, batches>>
  /\ UNCHANGED besideStore

ResyncReturn(p) ==
  /\ rs[p].pc = "done"
  /\ rs' = [rs EXCEPT ![p] = IdleProc]
  /\ UNCHANGED <<generations, outputs, prediction, dl, events, now, ticks,
                 sweepCount, batches, statusChanges>>
  /\ UNCHANGED besideStore

----------------------------------------------------------------------------
(* Stuck-job sweep, QUERY 6: one UPDATE statement *)

SweepConditionAnyStatus(row) == row.createdAt < now - TWO_MINUTES

SweepCondition(row) ==
  /\ row.status = "processing"
  /\ row.createdAt < now - TWO_MINUTES

Swept(row) ==
  [row EXCEPT !.status = "failed", !.parameters.error = TimeoutError]

RunSweep ==
  /\ sweepCount < MaxSweeps
  /\ sweepCount' = sweepCount + 1
  /\ LET hit == {j \in DOMAIN generations : SweepCondition(generations[j])} IN
       /\ generations' =
            [j \in DOMAIN generations |->
               IF j \in hit THEN Swept(generations[j]) ELSE generations[j]]
       /\ events' = events \cup {ChangeEvent("UPDATE", j, "failed") : j \in hit}
       /\ statusChanges' =
            [j \in DOMAIN statusChanges |->
               IF j \in hit /\ generations[j].status # "failed"
                 THEN statusChanges[j] + 1 ELSE statusChanges[j]]
  /\ UNCHANGED <<outputs, prediction, rs, dl, now, ticks, batches>>

Sweep == RunSweep /\ UNCHANGED besideStore

----------------------------------------------------------------------------
(* Delete handler, DELETE /api/generations/[id] *)

DeleteCall(q, j, caller) ==
  /\ dl[q].pc = "idle"
  /\ dl' =
       [dl EXCEPT ![q] =
          IF caller = NoUser THEN DeleterDone("401 Unauthorized")
          ELSE IF j \notin DOMAIN generations
            THEN DeleterDone("404 Generation not found")
          ELSE IF generations[j].userId # caller THEN DeleterDone("403 Unauthorized")
          ELSE IF generations[j].status # "cancelled"
                  /\ generations[j].status # "failed"
            THEN DeleterDone("400 Can only delete cancelled or failed")
          ELSE [IdleDeleter EXCEPT !.pc = "deleteOutputs", !.gid = j,
                                   !.caller = caller]]
  /\ UNCHANGED <<generations, outputs, prediction, rs, events, now, ticks,
                 sweepCount, batches, statusChanges>>
  /\ UNCHANGED besideStore

DeleteOutputs(q) ==
  /\ dl[q].pc = "deleteOutputs"
  /\ outputs' = SelectSeq(outputs, LAMBDA o : o.generationId # dl[q].gid)
  /\ dl' = [dl EXCEPT ![q].pc = "deleteGeneration"]
  /\ UNCHANGED <<generations, prediction, rs, events, now, ticks,
                 sweepCount, batches, statusChanges>>
  /\ UNCHANGED besideStore

(* prisma.generation.delete throws when the row is gone or when output     *)
(* rows still reference it                                                 *)
DeleteGeneration(q) ==
  /\ dl[q].pc = "deleteGeneration"
  /\ LET gid == dl[q].gid IN
       IF gid \in DOMAIN generations /\ OutputsOf(gid) = <<>>
         THEN /\ generations' =
                   [j \in DOMAIN generations \ {gid} |-> generations[j]]
              /\ events' = events \cup {ChangeEvent("DELETE", gid, "")}
              /\ dl' = [dl EXCEPT ![q] = DeleterDone("deleted")]
         ELSE /\ dl' = [dl EXCEPT ![q] = DeleterDone("500 Failed to delete")]
              /\ UNCHANGED <<generations, events>>
  /\ UNCHANGED <<outputs, prediction, rs, now, ticks, sweepCount, batches,
                 statusChanges>>
  /\ UNCHANGED besideStore

DeleteReturn(q) ==
  /\ dl[q].pc = "done"
  /\ dl' = [dl EXCEPT ![q] = IdleDeleter]
  /\ UNCHANGED <<generations, outputs, prediction, rs, events, now, ticks,
                 sweepCount, batches, statusChanges>>
  /\ UNCHANGED besideStore

----------------------------------------------------------------------------
(* The Job Store under concurrent handlers *)

Init == InitStore /\ InitFeed /\ InitClient /\ InitViewer /\ InitMut

Next ==
  \/ \E d \in TickSteps : Tick(d)
  \/ \E j \in JobIds : ProviderSucceeds(j)
  \/ \E j \in JobIds : ProviderFails(j)
  \/ \E p \in Procs, j \in JobIds, c \in Users \cup {NoUser} : ResyncCall(p, j, c)
  \/ \E p \in Procs : ResyncPoll(p)
  \/ \E p \in Procs : ResyncPollThrows(p)
  \/ \E p \in Procs : ResyncCreateMany(p)
  \/ \E p \in Procs : ResyncUpdateCompleted(p)
  \/ \E p \in Procs : ResyncUpdateNoOutputs(p)
  \/ \E p \in Procs : ResyncUpdateFailed(p)
  \/ \E p \in Procs : ResyncReturn(p)
  \/ Sweep
  \/ \E q \in Deleters, j \in JobIds, c \in Users \cup {NoUser} : DeleteCall(q, j, c)
  \/ \E q \in Deleters : DeleteOutputs(q)
  \/ \E q \in Deleters : DeleteGeneration(q)
  \/ \E q \in Deleters : DeleteReturn(q)

Spec == Init /\ [][Next]_vars

(* C19: a resync request that finds the prediction still pending answers  *)
(* without a write: the step that takes the still-processing branch leaves *)
(* every job row and every Output row as it was.                           *)
StillPendingNoChange ==
  [][\A p \in Procs :
       (/\ rs[p].pc = "poll"
        /\ rs'[p].pc = "done"
        /\ rs'[p].res = "still processing")
         => generations' = generations /\ outputs' = outputs]_vars

StillPendingAnswered ==
  \E p \in Procs :
    /\ rs[p].pc = "done"
    /\ rs[p].res = "still processing"
    /\ rs[p].gid \in DOMAIN generations
    /\ generations[rs[p].gid].status = "processing"
    /\ prediction[rs[p].gid].status = "processing"

(* C18: the write of the provider-failure branch moves a job that is still *)
(* processing to failed when the prediction failed and to cancelled when   *)
(* it was canceled, with a non-empty parameters.error and the Output rows  *)
(* as they were; a job no longer processing is left as it is.              *)
ProviderFailureReconciled ==
  [][\A p \in Procs :
       (rs[p].pc = "updateFailed" /\ rs'[p].pc = "done")
         => LET j == rs[p].gid IN
              IF j \in DOMAIN generations
                 /\ generations[j].status = "processing"
                THEN /\ generations'[j].status =
                          IF prediction[j].status = "canceled"
                            THEN "cancelled" ELSE "failed"
                     /\ generations'[j].parameters.error # NoText
                     /\ outputs' = outputs
                ELSE generations' = generations /\ outputs' = outputs]_vars

(* C20: when a resync request that got k output URLs from the provider    *)
(* writes completed, the job is completed and has exactly k Output rows,   *)
(* the i-th holding the storage URL when its transfer worked and the       *)
(* provider's i-th URL when it failed.                                     *)
TransferFailureKeepsJob ==
  [][\A p \in Procs :
       (/\ rs[p].pc = "updateCompleted"
        /\ rs'[p].pc = "done"
        /\ rs'[p].res = "synced completed")
         => LET j == rs[p].gid IN
              /\ generations'[j].status = "completed"
              /\ \E uploaded \in [1..Len(rs[p].urls) -> BOOLEAN] :
                   SelectSeq(outputs', LAMBDA o : o.generationId = j)
                     = OutputRecords(j, rs[p].urls, uploaded)]_vars

(* C22: when a resync request for an existing job ends in an error         *)
(* outcome (the prediction failed, it succeeded without outputs, or the    *)
(* poll or a write threw), the job's parameters.error is set after the     *)
(* step that ends the request.                                             *)
ReconcileErrorsAttached ==
  [][\A p \in Procs :
       (/\ rs[p].pc \notin {"idle", "done"}
        /\ rs'[p].pc = "done"
        /\ rs'[p].res \in {"synced failed", "synced failed no outputs",
                           "500 Sync failed"}
        /\ rs[p].gid \in DOMAIN generations')
         => generations'[rs[p].gid].parameters.error # NoText]_vars

(* C34: a resync request that finds the prediction succeeded with a       *)
(* result from which no output URL can be read takes the no-outputs        *)
(* branch without a write, and its write then leaves the job, if it still  *)
(* exists, failed with parameters.error set, without any Output row of the *)
(* job and with the Output rows as they were.                              *)
NoOutputsReconciled ==
  [][\A p \in Procs :
       LET j == rs[p].gid IN
       /\ (/\ rs[p].pc = "poll"
           /\ prediction[j].status = "succeeded"
           /\ Len(ParseOutputUrls(prediction[j].output)) = 0
           /\ rs'[p] # rs[p])
            => /\ \/ rs'[p].pc = "updateNoOutputs"
                  \/ rs'[p] = Done(j, "500 Sync failed")
               /\ generations' = generations
               /\ outputs' = outputs
       /\ (rs[p].pc = "updateNoOutputs" /\ rs'[p] # rs[p])
            => /\ prediction[j].status = "succeeded"
               /\ outputs' = outputs
               /\ \A i \in 1..Len(outputs') : outputs'[i].generationId # j
               /\ IF j \in DOMAIN generations
                    THEN /\ generations'[j].status = "failed"
                         /\ generations'[j].parameters.error # NoText
                         /\ rs'[p] = Done(j, "synced failed no outputs")
                    ELSE generations' = generations]_vars

NoOutputsSynced ==
  \E p \in Procs :
    /\ rs[p] = Done(rs[p].gid, "synced failed no outputs")
    /\ rs[p].gid \in DOMAIN generations
    /\ generations[rs[p].gid].status = "failed"
    /\ generations[rs[p].gid].parameters.error = NoOutputsError
    /\ prediction[rs[p].gid].status = "succeeded"
    /\ OutputsOf(rs[p].gid) = <<>>

(* C17: a job is removed only by a delete request of its owner and only   *)
(* while its status is failed or cancelled; a request answered with an     *)
(* error leaves jobs and outputs as they are; a removed job has no Output  *)
(* rows, whatever a resync of the same job does meanwhile.                 *)
DeleteOnlyOwnedTerminal ==
  [][\A j \in JobIds :
       /\ (j \in DOMAIN generations /\ j \notin DOMAIN generations')
            => /\ generations[j].status \in {"failed", "cancelled"}
               /\ \E q \in Deleters :
                    /\ dl[q].gid = j
                    /\ dl[q].caller = generations[j].userId
       /\ (\E q \in Deleters :
             /\ dl'[q].pc = "done"
             /\ dl[q].pc # "done"
             /\ dl'[q].res # "deleted"
             /\ j \in DOMAIN generations
             /\ generations[j].status \in {"processing", "completed"})
            => /\ j \in DOMAIN generations'
               /\ generations'[j] = generations[j]
               /\ outputs' = outputs
       /\ j \notin DOMAIN generations'
            => SelectSeq(outputs', LAMBDA o : o.generationId = j) = <<>>]_vars

----------------------------------------------------------------------------
(* The Job Store when every request is served to its end before the next  *)
(* one starts                                                              *)

NoneActive ==
  /\ \A p \in Procs : rs[p].pc \in {"idle", "done"}
  /\ \A q \in Deleters : dl[q].pc \in {"idle", "done"}

SeqResyncCall(p, j, c) == NoneActive /\ ResyncCall(p, j, c)

SeqDeleteCall(q, j, c) == NoneActive /\ DeleteCall(q, j, c)

SeqSweep == NoneActive /\ Sweep

SeqNext ==
  \/ \E d \in TickSteps : Tick(d)
  \/ \E j \in JobIds : ProviderSucceeds(j)
  \/ \E j \in JobIds : ProviderFails(j)
  \/ \E p \in Procs, j \in JobIds, c \in Users \cup {NoUser} : SeqResyncCall(p, j, c)
  \/ \E p \in Procs : ResyncPoll(p)
  \/ \E p \in Procs : ResyncPollThrows(p)
  \/ \E p \in Procs : ResyncCreateMany(p)
  \/ \E p \in Procs : ResyncUpdateCompleted(p)
  \/ \E p \in Procs : ResyncUpdateNoOutputs(p)
  \/ \E p \in Procs : ResyncUpdateFailed(p)
  \/ \E p \in Procs : ResyncReturn(p)
  \/ SeqSweep
  \/ \E q \in Deleters, j \in JobIds, c \in Users \cup {NoUser} : SeqDeleteCall(q, j, c)
  \/ \E q \in Deleters : DeleteOutputs(q)
  \/ \E q \in Deleters : DeleteGeneration(q)
  \/ \E q \in Deleters : DeleteReturn(q)

SpecSeq == Init /\ [][SeqNext]_vars

----------------------------------------------------------------------------
(* Claims about the Job Store *)

(* C1: once a job's status is completed, failed or cancelled, no write     *)
(* changes it; every status change starts from processing.                 *)
StatusMonotonic ==
  [][\A j \in DOMAIN generations :
       (IsTerminal(generations[j].status) /\ j \in DOMAIN generations')
         => generations'[j].status = generations[j].status]_vars

(* C2: under concurrent triggers a job's status changes at most once and   *)
(* at most one batch of Output rows is inserted for it.                    *)
AtMostOneEffectiveWrite ==
  \A j \in DOMAIN batches : batches[j] <= 1 /\ statusChanges[j] <= 1

(* C3: with requests served one after the other, a job gets at most one    *)
(* batch of Output rows and one status transition, and a resync request    *)
(* for a job that is already terminal ends at once and changes neither the *)
(* job nor its outputs.                                                    *)
ReconcileIdempotent ==
  /\ [](\A j \in DOMAIN batches : batches[j] <= 1 /\ statusChanges[j] <= 1)
  /\ [][\A p \in Procs :
          (/\ rs[p].pc = "idle"
           /\ rs'[p].pc # "idle"
           /\ rs'[p].gid \in DOMAIN generations
           /\ IsTerminal(generations[rs'[p].gid].status))
            => /\ rs'[p].pc = "done"
               /\ rs'[p].res \notin {"synced completed", "synced failed",
                                     "synced failed no outputs"}
               /\ generations' = generations
               /\ outputs' = outputs]_vars

SecondResyncWasNoOp ==
  \E p \in Procs :
    /\ rs[p].pc = "done"
    /\ rs[p].res = "already in terminal state"
    /\ rs[p].gid \in DOMAIN generations
    /\ generations[rs[p].gid].status = "completed"
    /\ generations[rs[p].gid].parameters.syncReason = "manual"
    /\ batches[rs[p].gid] = 1
    /\ statusChanges[rs[p].gid] = 1

(* C4: a job has Output rows if and only if its status is completed.       *)
OutputsIffCompleted ==
  \A j \in DOMAIN generations :
    (OutputsOf(j) # <<>>) <=> (generations[j].status = "completed")

(* C10: a sweep marks failed, with an error text containing "timed out",   *)
(* every job that is processing and older than two minutes, and leaves     *)
(* every other job, an already failed one included, as it is.              *)
SweepFailsTimedOutOnce ==
  [][sweepCount' # sweepCount =>
       \A j \in DOMAIN generations :
         /\ j \in DOMAIN generations'
         /\ IF /\ generations[j].status = "processing"
               /\ now - generations[j].createdAt > TWO_MINUTES
              THEN /\ generations'[j].status = "failed"
                   /\ Contains(generations'[j].parameters.error,
                               <<"timed", "out">>)
              ELSE generations'[j] = generations[j]]_vars

SecondSweepOverFailedJob ==
  \E j \in DOMAIN generations :
    /\ sweepCount = 2
    /\ generations[j].status = "failed"
    /\ generations[j].parameters.error = TimeoutError
    /\ statusChanges[j] = 1
    /\ now - generations[j].createdAt > TWO_MINUTES

----------------------------------------------------------------------------
(* Feed read endpoint, GET /api/generations?sessionId&cursor&limit *)

DefaultLimit == 10

Sessions == {"s1", "s2"}
NoSession == ""
Limits == ((0 - 1)..MaxLimit) \cup {DefaultLimit}

Min(a, b) == IF a < b THEN a ELSE b

Max(a, b) == IF a > b THEN a ELSE b

(* Date.toISOString and new Date(text); a text that is no date, undefined  *)
(* included, gives the Invalid Date                                        *)
ToISOString(ms) == <<"iso", ms>>

InvalidDate == 0 - 1

ParseDate(text) == IF text[1] = "iso" THEN text[2] ELSE InvalidDate

(* a cursor query parameter: absent, a token made by encodeCursor, a text  *)
(* that is not the base64url of JSON, or the base64url of a JSON value     *)
(* without the fields createdAt and id                                     *)
NoCursor == [kind |-> "absent"]

GarbageCursor == [kind |-> "garbage"]

FieldlessCursor ==
  [kind |-> "json", createdAt |-> <<"undefined">>, id |-> 0]

encodeCursor(createdAt, id) ==
  [kind |-> "json", createdAt |-> ToISOString(createdAt), id |-> id]

decodeCursor(cursor) ==
  IF cursor.kind = "json"
    THEN [ok |-> TRUE, createdAt |-> ParseDate(cursor.createdAt),
          id |-> cursor.id]
    ELSE [ok |-> FALSE, createdAt |-> 0, id |-> 0]

CursorTokens ==
  {NoCursor, GarbageCursor, FieldlessCursor}
  \cup {encodeCursor(t, i) : t \in 0..MaxTicks, i \in FeedIds}

(* the keyset condition of the where clause *)
AfterCursorNoTieBreak(row, c) == row.createdAt < c.createdAt

AfterCursor(row, c) ==
  \/ row.createdAt < c.createdAt
  \/ row.createdAt = c.createdAt /\ row.id < c.id

WhereClauseOfAnyUser(sessionId, userId, cursor) ==
  LET decoded == decodeCursor(cursor) IN
  {j \in DOMAIN generations :
     /\ generations[j].sessionId = sessionId
     /\ (cursor.kind # "absent" /\ decoded.ok)
          => AfterCursor(generations[j], decoded)}

WhereClause(sessionId, userId, cursor) ==
  LET decoded == decodeCursor(cursor) IN
  {j \in DOMAIN generations :
     /\ generations[j].sessionId = sessionId
     /\ generations[j].userId = userId
     /\ (cursor.kind # "absent" /\ decoded.ok)
          => AfterCursor(generations[j], decoded)}

(* orderBy: [{ createdAt: 'desc' }, { id: 'desc' }] *)
SortsBefore(a, b) ==
  \/ a.createdAt > b.createdAt
  \/ a.createdAt = b.createdAt /\ a.id > b.id

RECURSIVE OrderDesc(_)
OrderDesc(ids) ==
  IF ids = {} THEN <<>>
  ELSE LET first == CHOOSE j \in ids :
                      \A k \in ids \ {j} :
                        SortsBefore(generations[j], generations[k])
       IN <<first>> \o OrderDesc(ids \ {first})

(* take: a negative count takes from the end of the ordered rows *)
Take(rows, n) ==
  IF n >= 0 THEN SubSeq(rows, 1, Min(n, Len(rows)))
  ELSE SubSeq(rows, Max(1, Len(rows) + n + 1), Len(rows))

(* Array.prototype.slice(0, end) *)
Slice0(rows, end) ==
  SubSeq(rows, 1, IF end < 0 THEN Max(Len(rows) + end, 0)
                  ELSE Min(end, Len(rows)))

WithOutputs(j) ==
  [id |-> j, sessionId |-> generations[j].sessionId,
   userId |-> generations[j].userId, status |-> generations[j].status,
   createdAt |-> generations[j].createdAt, outputs |-> OutputsOf(j),
   error |-> generations[j].parameters.error,
   lastStep |-> generations[j].parameters.lastStep]

ErrorPage(status) ==
  [status |-> status, data |-> <<>>, nextCursor |-> NoCursor,
   hasMore |-> FALSE]

FeedPage(sessionId, user, cursor, limit) ==
  IF user = NoUser THEN ErrorPage(401)
  ELSE IF sessionId = NoSession THEN ErrorPage(400)
  ELSE IF /\ cursor.kind # "absent"
          /\ decodeCursor(cursor).ok
          /\ decodeCursor(cursor).createdAt = InvalidDate
    THEN ErrorPage(500)
  ELSE
    LET found == Take(OrderDesc(WhereClause(sessionId, user, cursor)),
                      limit + 1)
        hasMore == Len(found) > limit
        data == IF hasMore THEN Slice0(found, limit) ELSE found
        lastItem == generations[data[Len(data)]]
    IN [status |-> 200,
        data |-> [i \in 1..Len(data) |-> WithOutputs(data[i])],
        nextCursor |-> IF hasMore /\ Len(data) > 0
                         THEN encodeCursor(lastItem.createdAt, lastItem.id)
                         ELSE NoCursor,
        hasMore |-> hasMore]

FeedGet(sessionId, user, cursor, limit) ==
  /\ fg.pc = "idle"
  /\ fg' = [pc |-> "done",
            req |-> [sessionId |-> sessionId, user |-> user,
                     cursor |-> cursor, limit |-> limit],
            res |-> FeedPage(sessionId, user, cursor, limit)]
  /\ UNCHANGED <<storeVars, walk>>
  /\ UNCHANGED besideFeed

FeedReturn ==
  /\ fg.pc = "done"
  /\ fg' = IdleRequest
  /\ UNCHANGED <<storeVars, walk>>
  /\ UNCHANGED besideFeed

(* Job creation: a new row in processing, created_at = now() *)
InsertJob(id, sessionId, userId) ==
  /\ id \notin DOMAIN generations
  /\ generations' =
       [j \in DOMAIN generations \cup {id} |->
          IF j = id THEN NewGeneration(id, sessionId, userId, "pred", now)
          ELSE generations[j]]
  /\ events' = events \cup {ChangeEvent("INSERT", id, "processing")}
  /\ UNCHANGED <<outputs, prediction, rs, dl, now, ticks, sweepCount,
                 batches, statusChanges>>

(* the infinite query walking the feed: initialPageParam undefined, then   *)
(* getNextPageParam = hasMore ? nextCursor : undefined                     *)
IdsOf(data) == [i \in 1..Len(data) |-> data[i].id]

NextPhase(page) ==
  IF page.status # 200 THEN "error"
  ELSE IF ~page.hasMore THEN "done"
  ELSE IF page.nextCursor = NoCursor THEN "stuck"
  ELSE "paging"

WalkStart(limit) ==
  /\ walk.phase = "none"
  /\ LET page == FeedPage(ClientSession, Owner, NoCursor, limit) IN
       walk' = [phase |-> NextPhase(page), limit |-> limit,
                cursor |-> page.nextCursor, ids |-> IdsOf(page.data),
                pages |-> 1,
                snapshot |-> WhereClause(ClientSession, Owner, NoCursor)]
  /\ UNCHANGED <<storeVars, fg>>
  /\ UNCHANGED besideFeed

WalkNext ==
  /\ walk.phase = "paging"
  /\ LET page == FeedPage(ClientSession, Owner, walk.cursor, walk.limit) IN
       walk' = [walk EXCEPT !.phase = NextPhase(page),
                            !.cursor = page.nextCursor,
                            !.ids = @ \o IdsOf(page.data),
                            !.pages = @ + 1]
  /\ UNCHANGED <<storeVars, fg>>
  /\ UNCHANGED besideFeed

InitEmptyStore ==
  /\ generations = <<>>
  /\ outputs = <<>>
  /\ prediction = <<>>
  /\ rs = [p \in Procs |-> IdleProc]
  /\ dl = [q \in Deleters |-> IdleDeleter]
  /\ events = {}
  /\ now = 0
  /\ ticks = 0
  /\ sweepCount = 0
  /\ batches = <<>>
  /\ statusChanges = <<>>

FeedInit ==
  InitEmptyStore /\ InitFeed /\ InitClient /\ InitViewer /\ InitMut

FeedInsert ==
  \E id \in FeedIds, s \in Sessions, u \in Users :
    InsertJob(id, s, u) /\ fg.pc = "idle"
    /\ UNCHANGED besideStore

FeedTick == Tick(1) /\ fg.pc = "idle"

FeedNext ==
  \/ FeedInsert
  \/ FeedTick
  \/ \E s \in {ClientSession, NoSession}, u \in {Owner, NoUser},
        c \in CursorTokens, n \in Limits : FeedGet(s, u, c, n)
  \/ FeedReturn

SpecFeed == FeedInit /\ [][FeedNext]_vars

WalkNextStep ==
  \/ FeedInsert
  \/ FeedTick
  \/ \E n \in Limits : WalkStart(n)
  \/ WalkNext

SpecWalk == FeedInit /\ [][WalkNextStep]_vars

----------------------------------------------------------------------------
(* Claims about the feed *)

PositionsOf(j, ids) == {i \in 1..Len(ids) : ids[i] = j}

(* C5: the pages of a finished walk, concatenated, are in                  *)
(* (createdAt DESC, id DESC) order, hold no job twice and hold every job   *)
(* of the session that existed at the first request, whatever was inserted *)
(* between the requests and whatever timestamps are shared.                *)
WalkYieldsSnapshotOnce ==
  walk.phase \in {"paging", "done"} =>
    /\ \A i, k \in 1..Len(walk.ids) :
         i < k => SortsBefore(generations[walk.ids[i]], generations[walk.ids[k]])
    /\ \A j \in walk.snapshot : Cardinality(PositionsOf(j, walk.ids)) <= 1
    /\ walk.phase = "done" =>
         \A j \in walk.snapshot : Cardinality(PositionsOf(j, walk.ids)) = 1

WalkDoneAcrossInsertAndTie ==
  /\ walk.phase = "done"
  /\ walk.pages >= 2
  /\ Cardinality(walk.snapshot) >= 2
  /\ \E j, k \in walk.snapshot :
       j # k /\ generations[j].createdAt = generations[k].createdAt
  /\ \E j \in WhereClause(ClientSession, Owner, NoCursor) : j \notin walk.snapshot

(* C6: a page holds the first n jobs after the cursor, hasMore is true     *)
(* exactly when a further job follows them, and nextCursor is returned     *)
(* exactly when hasMore is true and then names the last returned job.      *)
PageContract(req, res, matching) ==
  /\ res.data = [i \in 1..Min(Max(req.limit, 0), Len(matching)) |->
                   WithOutputs(matching[i])]
  /\ res.hasMore <=> Len(matching) > Len(res.data)
  /\ (res.nextCursor # NoCursor) <=> res.hasMore
  /\ res.hasMore =>
       /\ Len(res.data) > 0
       /\ res.nextCursor =
            encodeCursor(res.data[Len(res.data)].createdAt,
                         res.data[Len(res.data)].id)

FeedPageContract ==
  (fg.pc = "done" /\ fg.res.status = 200) =>
    PageContract(fg.req, fg.res,
      OrderDesc(WhereClause(fg.req.sessionId, fg.req.user, fg.req.cursor)))

DenotesPair(cursor) ==
  /\ cursor.kind = "json"
  /\ cursor.createdAt[1] = "iso"
  /\ cursor.id \in FeedIds

(* C16: a request whose cursor is present and denotes no (createdAt, id)   *)
(* pair is answered as the same request without a cursor is: with the      *)
(* first page and without an error.                                        *)
MalformedCursorIsNoCursor ==
  (/\ fg.pc = "done"
   /\ fg.req.cursor # NoCursor
   /\ ~DenotesPair(fg.req.cursor))
    => fg.res = FeedPage(fg.req.sessionId, fg.req.user, NoCursor,
                         fg.req.limit)

(* C33: every job of an answer of the feed read endpoint is a job of the   *)
(* requested session and of the authenticated user, whatever the cursor;   *)
(* a request without an authenticated session or without a sessionId is    *)
(* answered with an error and without jobs.                                *)
FeedAnswersOwnSessionJobs ==
  (fg.pc = "done" /\ "cursor" \in DOMAIN fg.req)
    => /\ \A i \in 1..Len(fg.res.data) :
            /\ fg.res.data[i].sessionId = fg.req.sessionId
            /\ fg.res.data[i].userId = fg.req.user
            /\ fg.res.data[i].id \in DOMAIN generations
            /\ generations[fg.res.data[i].id].sessionId = fg.req.sessionId
            /\ generations[fg.res.data[i].id].userId = fg.req.user
       /\ (fg.req.user = NoUser \/ fg.req.sessionId = NoSession)
            => fg.res.status \in {400, 401} /\ fg.res.data = <<>>
       /\ fg.res.status # 200 => fg.res.data = <<>>

(* a page served past a cursor while the store holds a job of another user *)
(* in the requested session and a job of the user in another session       *)
FeedServedAmongForeignJobs ==
  /\ fg.pc = "done"
  /\ "cursor" \in DOMAIN fg.req
  /\ fg.req.cursor # NoCursor
  /\ fg.res.status = 200
  /\ Len(fg.res.data) > 0
  /\ \E j, k \in DOMAIN generations :
       /\ generations[j].sessionId = fg.req.sessionId
       /\ generations[j].userId # fg.req.user
       /\ generations[k].sessionId # fg.req.sessionId
       /\ generations[k].userId = fg.req.user

----------------------------------------------------------------------------
(* Client view of one session: the infinite query cache, the realtime      *)
(* subscription and the single-generation fetch                            *)

RECENT_THRESHOLD_MS == 30 * 1000

ClientUser == Owner

(* GET /api/generations/[id]; the session's project belongs to Owner, is    *)
(* not shared and has no members                                           *)
GetGeneration(id, user) ==
  IF user = NoUser THEN [status |-> 401]
  ELSE IF id \notin DOMAIN generations THEN [status |-> 404]
  ELSE IF user # Owner THEN [status |-> 403]
  ELSE [status |-> 200, generation |-> WithOutputs(id)]

(* a row as the client receives it: dates arrive as ISO text and the       *)
(* server sends no clientId                                                *)
JsonGeneration(row) ==
  [id |-> row.id, status |-> row.status,
   createdAt |-> ToISOString(row.createdAt), outputs |-> row.outputs,
   clientId |-> "", error |-> row.error, lastStep |-> row.lastStep]

JsonPage(page) ==
  [data |-> [i \in 1..Len(page.data) |-> JsonGeneration(page.data[i])],
   nextCursor |-> page.nextCursor, hasMore |-> page.hasMore]

InfiniteData(pages) == [defined |-> TRUE, pages |-> pages]

RECURSIVE FlatMap(_)
FlatMap(pages) ==
  IF pages = <<>> THEN <<>> ELSE Head(pages).data \o FlatMap(Tail(pages))

CachedIds(data) ==
  {FlatMap(data.pages)[i].id : i \in 1..Len(FlatMap(data.pages))}

(* Array.prototype.findIndex, 0 for -1 *)
FindIndex(rows, id) ==
  IF \E i \in 1..Len(rows) : rows[i].id = id
    THEN CHOOSE i \in 1..Len(rows) :
           rows[i].id = id /\ \A k \in 1..(i - 1) : rows[k].id # id
    ELSE 0

(* oldGenerationsMap.get: the last entry set for the id *)
OldGeneration(oldData, id) ==
  LET all == FlatMap(oldData.pages)
      at == CHOOSE i \in 1..Len(all) :
              all[i].id = id /\ \A k \in (i + 1)..Len(all) : all[k].id # id
  IN all[at]

MergeGeneration(oldGen, newGen) ==
  [newGen EXCEPT
     !.clientId = IF oldGen.clientId # "" THEN oldGen.clientId ELSE @,
     !.outputs = IF Len(newGen.outputs) = 0 /\ Len(oldGen.outputs) > 0
                   THEN oldGen.outputs ELSE @]

mergeGenerationsDataKeepingOlder(oldData, newData, dateNow) ==
  IF ~oldData.defined THEN newData
  ELSE
    InfiniteData(
      [p \in 1..Len(newData.pages) |->
         LET newPage == newData.pages[p]
             mergedData ==
               [i \in 1..Len(newPage.data) |->
                  LET newGen == newPage.data[i] IN
                    IF newGen.id \in CachedIds(oldData)
                      THEN MergeGeneration(OldGeneration(oldData, newGen.id),
                                           newGen)
                      ELSE newGen]
             missingProcessing ==
               IF p = 1 /\ Len(oldData.pages) > 0
                 THEN SelectSeq(oldData.pages[1].data,
                        LAMBDA oldGen :
                          /\ FindIndex(newPage.data, oldGen.id) = 0
                          /\ oldGen.status = "processing")
                 ELSE <<>>
         IN [newPage EXCEPT !.data = missingProcessing \o mergedData]])

mergeGenerationsData(oldData, newData, dateNow) ==
  IF ~oldData.defined THEN newData
  ELSE
    InfiniteData(
      [p \in 1..Len(newData.pages) |->
         LET newPage == newData.pages[p]
             mergedData ==
               [i \in 1..Len(newPage.data) |->
                  LET newGen == newPage.data[i] IN
                    IF newGen.id \in CachedIds(oldData)
                      THEN MergeGeneration(OldGeneration(oldData, newGen.id),
                                           newGen)
                      ELSE newGen]
             missingRecentProcessing ==
               IF p = 1 /\ Len(oldData.pages) > 0
                 THEN SelectSeq(oldData.pages[1].data,
                        LAMBDA oldGen :
                          /\ FindIndex(newPage.data, oldGen.id) = 0
                          /\ oldGen.status = "processing"
                          /\ dateNow - ParseDate(oldGen.createdAt)
                               < RECENT_THRESHOLD_MS)
                 ELSE <<>>
         IN [newPage EXCEPT !.data = missingRecentProcessing \o mergedData]])

(* old.pages.map(page => ({ ...page, data })), undefined left undefined *)
MapPages(data, rowsOf) ==
  IF ~data.defined THEN data
  ELSE InfiniteData([p \in 1..Len(data.pages) |->
                       [data.pages[p] EXCEPT !.data = rowsOf[p]]])

SetStatus(rows, id, newStatus) ==
  LET foundIndex == FindIndex(rows, id) IN
    IF foundIndex # 0 /\ rows[foundIndex].status # newStatus
      THEN [rows EXCEPT ![foundIndex].status = newStatus]
      ELSE rows

updateCacheStatus(data, id, newStatus) ==
  MapPages(data, [p \in 1..Len(data.pages) |->
                    SetStatus(data.pages[p].data, id, newStatus)])

(* the replacement fetchAndMergeGeneration writes into a page *)
ReplaceGeneration(rows, generation) ==
  LET foundIndex == FindIndex(rows, generation.id) IN
    IF foundIndex # 0
      THEN [rows EXCEPT ![foundIndex] =
              [generation EXCEPT !.clientId = rows[foundIndex].clientId]]
      ELSE rows

RemoveGeneration(rows, id) == SelectSeq(rows, LAMBDA gen : gen.id # id)

EventKey(e) ==
  IF e.eventType = "DELETE" THEN <<"DELETE", "undefined", "undefined">>
  ELSE <<e.eventType, e.id, e.status>>

StartFetchWhileFetching(id) ==
  IF id \in dismissed
    THEN UNCHANGED <<fetchingRef, fetches>>
    ELSE /\ fetchingRef' = fetchingRef \cup {id}
         /\ fetches' = [fetches EXCEPT ![id] = [pc |-> "sent"]]

(* fetchAndMergeGeneration up to the await of fetch() *)
StartFetch(id) ==
  IF id \in dismissed \/ id \in fetchingRef
    THEN UNCHANGED <<fetchingRef, fetches>>
    ELSE /\ fetchingRef' = fetchingRef \cup {id}
         /\ fetches' = [fetches EXCEPT ![id] = [pc |-> "sent"]]

(* debouncedInvalidate: clearTimeout, then setTimeout(..., 3000) *)
debouncedInvalidate(called) ==
  timeoutRef' = IF called THEN now + DEBOUNCE_MS ELSE timeoutRef

(* the postgres_changes callback *)
RealtimeEvent(e) ==
  /\ lastEventRef # EventKey(e)
  /\ lastEventRef' = EventKey(e)
  /\ handled' = handled \cup {<<e.eventType, e.id, e.status>>}
  /\ IF e.eventType # "DELETE" /\ e.id \in dismissed THEN
       UNCHANGED <<infinite, dismissed, fetchingRef, timeoutRef, fetches>>
     ELSE IF e.eventType = "UPDATE" THEN
       /\ infinite' = updateCacheStatus(infinite, e.id, e.status)
       /\ IF e.status \in {"completed", "failed"}
            THEN StartFetch(e.id) /\ UNCHANGED timeoutRef
            ELSE /\ debouncedInvalidate(infinite' = infinite)
                 /\ UNCHANGED <<fetchingRef, fetches>>
       /\ UNCHANGED dismissed
     ELSE IF e.eventType = "INSERT" THEN
       /\ debouncedInvalidate(e.id \notin CachedIds(infinite))
       /\ UNCHANGED <<infinite, dismissed, fetchingRef, fetches>>
     ELSE
       /\ dismissed' = dismissed \cup {e.id}
       /\ infinite' =
            MapPages(infinite,
                     [p \in 1..Len(infinite.pages) |->
                        RemoveGeneration(infinite.pages[p].data, e.id)])
       /\ UNCHANGED <<fetchingRef, timeoutRef, fetches>>
  /\ UNCHANGED <<regular, refetch>>
  /\ UNCHANGED besideClient

(* the server answers the single-generation request *)
FetchServe(id) ==
  /\ fetches[id].pc = "sent"
  /\ fetches' = [fetches EXCEPT ![id] =
                   [pc |-> "responded", res |-> GetGeneration(id, ClientUser)]]
  /\ UNCHANGED <<infinite, regular, dismissed, lastEventRef, fetchingRef,
                 timeoutRef, refetch>>
  /\ UNCHANGED <<besideClient, handled>>

(* fetchAndMergeGeneration after the await: merge, or fall back to the     *)
(* debounced invalidation, and release the in-flight mark                  *)
FetchDeliver(id) ==
  /\ fetches[id].pc = "responded"
  /\ LET res == fetches[id].res IN
       IF res.status # 200
         THEN /\ debouncedInvalidate(TRUE)
              /\ UNCHANGED <<infinite, regular>>
         ELSE LET generation == JsonGeneration(res.generation) IN
              /\ infinite' =
                   MapPages(infinite,
                            [p \in 1..Len(infinite.pages) |->
                               ReplaceGeneration(infinite.pages[p].data,
                                                 generation)])
              /\ regular' =
                   IF ~regular.defined
                     THEN InfiniteData(<<[data |-> <<generation>>]>>)
                     ELSE MapPages(regular,
                            [p \in 1..Len(regular.pages) |->
                               ReplaceGeneration(regular.pages[p].data,
                                                 generation)])
              /\ UNCHANGED timeoutRef
  /\ fetchingRef' = fetchingRef \ {id}
  /\ fetches' = [fetches EXCEPT ![id] = IdleRequest]
  /\ UNCHANGED <<dismissed, lastEventRef, refetch>>
  /\ UNCHANGED <<besideClient, handled>>

(* fetch() rejects *)
FetchThrows(id) ==
  /\ fetches[id].pc = "sent"
  /\ debouncedInvalidate(TRUE)
  /\ fetchingRef' = fetchingRef \ {id}
  /\ fetches' = [fetches EXCEPT ![id] = IdleRequest]
  /\ UNCHANGED <<infinite, regular, dismissed, lastEventRef, refetch>>
  /\ UNCHANGED <<besideClient, handled>>

HasProcessingGenerations ==
  \E i \in 1..Len(FlatMap(infinite.pages)) :
    FlatMap(infinite.pages)[i].status = "processing"

RefetchStartWhateverStatus ==
  /\ refetch.pc = "idle"
  /\ refetch' = [pc |-> "sent"]
  /\ UNCHANGED <<infinite, regular, dismissed, lastEventRef, fetchingRef,
                 timeoutRef, fetches>>
  /\ UNCHANGED <<besideClient, handled>>

(* the infinite query fetches: on mount, and every refetchInterval while   *)
(* the cache holds a processing generation                                 *)
RefetchStart ==
  /\ refetch.pc = "idle"
  /\ ~infinite.defined \/ HasProcessingGenerations
  /\ refetch' = [pc |-> "sent"]
  /\ UNCHANGED <<infinite, regular, dismissed, lastEventRef, fetchingRef,
                 timeoutRef, fetches>>
  /\ UNCHANGED <<besideClient, handled>>

(* the debounce timer fires: invalidateQueries cancels a fetch in flight   *)
(* and fetches again                                                       *)
InvalidateFire ==
  /\ timeoutRef # NoTimeout
  /\ now >= timeoutRef
  /\ timeoutRef' = NoTimeout
  /\ refetch' = [pc |-> "sent"]
  /\ UNCHANGED <<infinite, regular, dismissed, lastEventRef, fetchingRef,
                 fetches>>
  /\ UNCHANGED <<besideClient, handled>>

RefetchServe ==
  /\ refetch.pc = "sent"
  /\ refetch' = [pc |-> "responded",
                 res |-> FeedPage(ClientSession, ClientUser, NoCursor,
                                  DefaultLimit)]
  /\ UNCHANGED <<infinite, regular, dismissed, lastEventRef, fetchingRef,
                 timeoutRef, fetches>>
  /\ UNCHANGED <<besideClient, handled>>

(* the fetched pages replace the cache through structuralSharing *)
RefetchDeliver ==
  /\ refetch.pc = "responded"
  /\ infinite' =
       IF refetch.res.status = 200
         THEN mergeGenerationsData(infinite,
                InfiniteData(<<JsonPage(refetch.res)>>), now)
         ELSE infinite
  /\ refetch' = IdleRequest
  /\ UNCHANGED <<regular, dismissed, lastEventRef, fetchingRef, timeoutRef,
                 fetches>>
  /\ UNCHANGED <<besideClient, handled>>

ClientStep ==
  \/ \E e \in events : RealtimeEvent(e)
  \/ \E j \in JobIds : FetchServe(j)
  \/ \E j \in JobIds : FetchDeliver(j)
  \/ \E j \in JobIds : FetchThrows(j)
  \/ RefetchStart
  \/ RefetchServe
  \/ RefetchDeliver

(* the owner's client beside the resync handler and the sweep *)
ClientNext ==
  \/ \E d \in TickSteps : Tick(d)
  \/ \E j \in JobIds : ProviderSucceeds(j)
  \/ \E j \in JobIds : ProviderFails(j)
  \/ \E j \in JobIds : ResyncCall(1, j, ClientUser)
  \/ ResyncPoll(1)
  \/ ResyncCreateMany(1)
  \/ ResyncUpdateCompleted(1)
  \/ ResyncUpdateNoOutputs(1)
  \/ ResyncUpdateFailed(1)
  \/ ResyncReturn(1)
  \/ Sweep
  \/ ClientStep
  \/ InvalidateFire

SpecClient == Init /\ [][ClientNext]_vars

(* the owner's client beside the sweep and the delete handler; the sweep  *)
(* needs both clock advances, so no debounce timer set after it comes due *)
DismissNext ==
  \/ \E d \in TickSteps : Tick(d)
  \/ Sweep
  \/ \E q \in Deleters, j \in JobIds : DeleteCall(q, j, ClientUser)
  \/ \E q \in Deleters : DeleteOutputs(q)
  \/ \E q \in Deleters : DeleteGeneration(q)
  \/ \E q \in Deleters : DeleteReturn(q)
  \/ ClientStep

SpecDismiss == Init /\ [][DismissNext]_vars

----------------------------------------------------------------------------
(* Claims about the client view *)

CachedRows == FlatMap(infinite.pages)

CachedRowsAfter == FlatMap(infinite'.pages)

(* C7: a job the local list holds with non-empty outputs does not hold an  *)
(* empty output set after any update of the list.                          *)
OutputsNeverEmptied ==
  [][\A i \in 1..Len(CachedRows), k \in 1..Len(CachedRowsAfter) :
       (CachedRows[i].id = CachedRowsAfter[k].id
        /\ Len(CachedRows[i].outputs) > 0)
         => Len(CachedRowsAfter[k].outputs) > 0]_vars

(* C8: a job the local list holds as completed, failed or cancelled keeps  *)
(* that status through every update of the list.                           *)
ClientStatusOnlyAdvances ==
  [][\A i \in 1..Len(CachedRows), k \in 1..Len(CachedRowsAfter) :
       (CachedRows[i].id = CachedRowsAfter[k].id
        /\ CachedRows[i].status \in TerminalStatuses)
         => CachedRowsAfter[k].status = CachedRows[i].status]_vars

(* C9: a dismissed job that is not in the local feed is in it after no     *)
(* update.                                                                 *)
DismissedNeverReAdded ==
  [][\A id \in dismissed :
       id \notin CachedIds(infinite) => id \notin CachedIds(infinite')]_vars

----------------------------------------------------------------------------
(* The opportunistic stuck-job check of an open session page               *)
(* (useGenerations): every fetch of the regular query looks for processing *)
(* generations older than two minutes and asks the server to clean up      *)

ViewerLimit == 20

IsStuck(gen, dateNow) ==
  /\ gen.status = "processing"
  /\ dateNow - ParseDate(gen.createdAt) > TWO_MINUTES

NotStartedWhateverStep(gen, dateNow) ==
  /\ gen.status = "processing"
  /\ dateNow - ParseDate(gen.createdAt) > TEN_SECONDS

(* notStartedGenerations: processing, older than ten seconds and lastStep  *)
(* falsy or still 'generate:create'                                        *)
NotStarted(gen, dateNow) ==
  LET hasStarted == gen.lastStep # "" /\ gen.lastStep # "generate:create"
  IN /\ gen.status = "processing"
     /\ dateNow - ParseDate(gen.createdAt) > TEN_SECONDS
     /\ ~hasStarted

(* checkAndCleanupStuckGenerations(data): one process request for every    *)
(* not-started generation (at most MaxTriggers in flight are counted),     *)
(* then the cleanup request when some generation is stuck                  *)
CheckAndCleanup(data) ==
  viewer' =
    [viewer EXCEPT
       !.triggers =
          [j \in JobIds |->
             IF /\ \E i \in 1..Len(data) :
                     data[i].id = j /\ NotStarted(data[i], now)
                /\ @[j] < MaxTriggers
               THEN @[j] + 1 ELSE @[j]],
       !.cleanup = IF \E i \in 1..Len(data) : IsStuck(data[i], now)
                     THEN "sent" ELSE @]

ViewerMount ==
  /\ ~viewer.mounted
  /\ viewer' = [viewer EXCEPT !.mounted = TRUE]
  /\ UNCHANGED <<storeVars, feedVars, clientVars, mutVars, sub, handled>>

(* the cache outlives the page (gcTime) *)
ViewerClose ==
  /\ viewer.mounted
  /\ viewer' = [viewer EXCEPT !.mounted = FALSE]
  /\ UNCHANGED <<storeVars, feedVars, clientVars, mutVars, sub, handled>>

(* queryFn: on mount without data, then every refetchInterval while the    *)
(* data hold a processing generation; checkAndCleanupStuckGenerations      *)
(* fires the cleanup request without awaiting it                           *)
ViewerFetch ==
  /\ viewer.mounted
  /\ \/ ~regular.defined
     \/ \E i \in 1..Len(FlatMap(regular.pages)) :
          FlatMap(regular.pages)[i].status = "processing"
  /\ LET page == FeedPage(ClientSession, ClientUser, NoCursor, ViewerLimit)
         data == JsonPage(page).data
     IN /\ regular' = InfiniteData(<<[data |-> data]>>)
        /\ CheckAndCleanup(data)
  /\ UNCHANGED <<infinite, dismissed, lastEventRef, fetchingRef, timeoutRef,
                 fetches, refetch>>
  /\ UNCHANGED <<storeVars, feedVars, mutVars, sub, handled>>

(* refetchInterval: while the cached data hold a processing generation,    *)
(* one evaluation in ten (Math.random() < 0.1) runs the check on the       *)
(* cached data                                                             *)
ViewerRecheck ==
  /\ viewer.mounted
  /\ regular.defined
  /\ \E i \in 1..Len(FlatMap(regular.pages)) :
       FlatMap(regular.pages)[i].status = "processing"
  /\ CheckAndCleanup(FlatMap(regular.pages))
  /\ UNCHANGED <<storeVars, feedVars, clientVars, mutVars, sub, handled>>

(* POST /api/generate/process for generation j: the continuation step      *)
(* runs for a job that is processing and has not left the dispatch step,   *)
(* and is a no-op otherwise; or the request fails and the caller only logs *)
ProcessServe(j) ==
  /\ viewer.triggers[j] > 0
  /\ viewer' = [viewer EXCEPT !.triggers[j] = @ - 1]
  /\ \/ /\ j \in DOMAIN generations
        /\ generations[j].status = "processing"
        /\ generations[j].parameters.lastStep \in {"", "generate:create"}
        /\ generations' =
             [generations EXCEPT ![j].parameters.lastStep = "process:start"]
     \/ UNCHANGED generations
  /\ UNCHANGED <<outputs, prediction, rs, dl, events, now, ticks,
                 sweepCount, batches, statusChanges>>
  /\ UNCHANGED <<feedVars, clientVars, mutVars, sub, handled>>

(* POST /api/admin/cleanup-stuck-generations: the server runs the sweep *)
CleanupServe ==
  /\ viewer.cleanup = "sent"
  /\ RunSweep
  /\ viewer' = [viewer EXCEPT !.cleanup = "idle"]
  /\ UNCHANGED <<feedVars, clientVars, mutVars, sub, handled>>

(* the cleanup request fails: the .catch only logs *)
CleanupFails ==
  /\ viewer.cleanup = "sent"
  /\ viewer' = [viewer EXCEPT !.cleanup = "idle"]
  /\ UNCHANGED <<storeVars, feedVars, clientVars, mutVars, sub, handled>>

LiveTick == \E d \in TickSteps \cup {TEN_SECONDS} : Tick(d)

(* the provider finishes or not but never calls back, and nobody asks for  *)
(* a resync; the clock runs, an open page keeps polling and the server     *)
(* answers                                                                 *)
LiveNext ==
  \/ LiveTick
  \/ \E j \in JobIds : ProviderSucceeds(j)
  \/ \E j \in JobIds : ProviderFails(j)
  \/ ViewerMount
  \/ ViewerClose
  \/ ViewerFetch
  \/ ViewerRecheck
  \/ \E j \in JobIds : ProcessServe(j)
  \/ CleanupServe
  \/ CleanupFails

(* a row written before lastStep existed has none *)
LiveInit ==
  /\ InitStoreWith({"", "generate:create"})
  /\ InitFeed /\ InitClient /\ InitViewer /\ InitMut

SpecLive ==
  /\ LiveInit
  /\ [][LiveNext]_vars
  /\ WF_vars(LiveTick)
  /\ WF_vars(ViewerFetch)
  /\ WF_vars(CleanupServe)

StuckJobEventuallyTerminal ==
  \A j \in JobIds :
    (j \in DOMAIN generations /\ SweepCondition(generations[j]))
      ~> (j \notin DOMAIN generations \/ IsTerminal(generations[j].status))

----------------------------------------------------------------------------
(* The dispatcher mutation of the client (useGenerateMutation): optimistic *)
(* insert on start, identity resolution on the response.  The server side  *)
(* of POST /api/generate is an input: any response of type                 *)
(* GenerateResponse, or an error                                           *)

(* `temp-${Date.now()}`: ids of the server are positive, temporary ones    *)
(* are numbered below zero by their timestamp                              *)
TempId(timestamp) == 0 - (timestamp + 1)

GenerateResponses ==
  {[id |-> i, status |-> s, error |-> IF s = "failed" THEN ProviderError
                                     ELSE NoText,
    outputs |-> [present |-> FALSE, urls |-> <<>>]] :
     i \in FeedIds \ JobIds, s \in {"processing", "completed", "failed"}}
  \cup {[id |-> i, status |-> "completed", error |-> NoText,
         outputs |-> [present |-> TRUE, urls |-> u]] :
          i \in FeedIds \ JobIds, u \in {<<>>, <<"url">>}}

OptimisticGeneration(timestamp) ==
  [id |-> TempId(timestamp), status |-> "processing",
   createdAt |-> ToISOString(timestamp), outputs |-> <<>>, clientId |-> "",
   error |-> NoText, lastStep |-> ""]

AddIfAbsent(rows, gen) ==
  IF FindIndex(rows, gen.id) # 0 THEN rows ELSE Append(rows, gen)

createUpdatedGeneration(original, data) ==
  IF data.status = "processing"
    THEN [original EXCEPT !.id = data.id, !.status = "processing"]
  ELSE IF data.status = "completed" /\ data.outputs.present
    THEN [original EXCEPT
            !.id = data.id, !.status = "completed",
            !.outputs = [i \in 1..Len(data.outputs.urls) |->
                           [generationId |-> data.id,
                            fileUrl |-> <<"provider", data.outputs.urls[i]>>]]]
  ELSE IF data.status = "failed"
    THEN [original EXCEPT !.id = data.id, !.status = "failed",
                          !.error = data.error]
  ELSE original

(* old.map(gen => gen.id === optimisticId ? ... : gen) *)
ReplaceEvery(rows, id, Updated) ==
  [i \in 1..Len(rows) |-> IF rows[i].id = id THEN Updated[i] ELSE rows[i]]

(* findIndex, then the first match is replaced *)
ReplaceFirst(rows, id, Updated) ==
  [i \in 1..Len(rows) |->
     IF i = FindIndex(rows, id) THEN Updated[i] ELSE rows[i]]

(* onMutate *)
Mutate(k) ==
  /\ mut[k].pc = "idle"
  /\ LET optimisticGeneration == OptimisticGeneration(now) IN
       /\ regular' =
            IF ~regular.defined
              THEN InfiniteData(<<[data |-> <<optimisticGeneration>>]>>)
              ELSE MapPages(regular,
                     [p \in 1..Len(regular.pages) |->
                        AddIfAbsent(regular.pages[p].data,
                                    optimisticGeneration)])
       /\ infinite' =
            IF ~infinite.defined \/ Len(infinite.pages) = 0 THEN infinite
            ELSE MapPages(infinite,
                   [p \in 1..Len(infinite.pages) |->
                      IF p = 1
                        THEN AddIfAbsent(infinite.pages[p].data,
                                         optimisticGeneration)
                        ELSE infinite.pages[p].data])
       /\ mut' = [mut EXCEPT ![k] =
                    [pc |-> "pending",
                     optimisticId |-> optimisticGeneration.id]]
  /\ UNCHANGED <<dismissed, lastEventRef, fetchingRef, timeoutRef, fetches,
                 refetch>>
  /\ UNCHANGED <<storeVars, feedVars, viewerVars, ref, sub,
                 handled>>

(* onSuccess; a processing response also schedules the request to          *)
(* /api/generate/process                                                   *)
MutationSuccess(k, data) ==
  /\ mut[k].pc = "pending"
  /\ regular' =
       IF ~regular.defined THEN InfiniteData(<<[data |-> <<>>]>>)
       ELSE MapPages(regular,
              [p \in 1..Len(regular.pages) |->
                 LET rows == regular.pages[p].data IN
                   ReplaceEvery(rows, mut[k].optimisticId,
                     [i \in 1..Len(rows) |->
                        createUpdatedGeneration(rows[i], data)])])
  /\ infinite' =
       MapPages(infinite,
         [p \in 1..Len(infinite.pages) |->
            LET rows == infinite.pages[p].data IN
              ReplaceFirst(rows, mut[k].optimisticId,
                [i \in 1..Len(rows) |->
                   createUpdatedGeneration(rows[i], data)])])
  /\ mut' = [mut EXCEPT ![k] =
               [pc |-> "succeeded", optimisticId |-> mut[k].optimisticId,
                data |-> data, trigger |-> (data.status = "processing")]]
  /\ UNCHANGED <<dismissed, lastEventRef, fetchingRef, timeoutRef, fetches,
                 refetch>>
  /\ UNCHANGED <<storeVars, feedVars, viewerVars, ref, sub,
                 handled>>

(* onError *)
MutationError(k) ==
  /\ mut[k].pc = "pending"
  /\ regular' =
       IF ~regular.defined THEN InfiniteData(<<[data |-> <<>>]>>)
       ELSE MapPages(regular,
              [p \in 1..Len(regular.pages) |->
                 LET rows == regular.pages[p].data IN
                   ReplaceEvery(rows, mut[k].optimisticId,
                     [i \in 1..Len(rows) |->
                        [rows[i] EXCEPT !.status = "failed",
                                        !.error = ProviderError]])])
  /\ infinite' =
       MapPages(infinite,
         [p \in 1..Len(infinite.pages) |->
            LET rows == infinite.pages[p].data IN
              ReplaceFirst(rows, mut[k].optimisticId,
                [i \in 1..Len(rows) |->
                   [rows[i] EXCEPT !.status = "failed",
                                   !.error = ProviderError]])])
  /\ mut' = [mut EXCEPT ![k] =
               [pc |-> "failed", optimisticId |-> mut[k].optimisticId]]
  /\ UNCHANGED <<dismissed, lastEventRef, fetchingRef, timeoutRef, fetches,
                 refetch>>
  /\ UNCHANGED <<storeVars, feedVars, viewerVars, ref, sub,
                 handled>>

CreateNext ==
  \/ \E d \in TickSteps : Tick(d)
  \/ RefetchStart
  \/ RefetchServe
  \/ RefetchDeliver
  \/ \E k \in Mutations : Mutate(k)
  \/ \E k \in Mutations, data \in GenerateResponses : MutationSuccess(k, data)
  \/ \E k \in Mutations : MutationError(k)

SpecCreate == Init /\ [][CreateNext]_vars

LocalIds(inf, reg) == CachedIds(inf) \cup CachedIds(reg)

(* C12: when the response of a create request arrives, no record with the  *)
(* request's temporary id is left in the local caches.                     *)
IdentityResolved ==
  [][\A k \in Mutations :
       (mut[k].pc = "pending" /\ mut'[k].pc = "succeeded")
         => mut[k].optimisticId \notin LocalIds(infinite', regular')]_vars

(* C13: when a create request starts, the optimistic record is in the      *)
(* regular cache and in the infinite cache.                                *)
OptimisticInBothCaches ==
  [][\A k \in Mutations :
       (mut[k].pc = "idle" /\ mut'[k].pc = "pending")
         => /\ mut'[k].optimisticId \in CachedIds(regular')
            /\ mut'[k].optimisticId \in CachedIds(infinite')]_vars

IsFailedMutation(m) ==
  \/ m.pc = "failed"
  \/ m.pc = "succeeded" /\ m.data.status = "failed"

FailedId(m) == IF m.pc = "failed" THEN m.optimisticId ELSE m.data.id

ShowsFailed(cache, id) ==
  \E i \in 1..Len(FlatMap(cache.pages)) :
    /\ FlatMap(cache.pages)[i].id = id
    /\ FlatMap(cache.pages)[i].status = "failed"
    /\ FlatMap(cache.pages)[i].error # NoText

(* C21: when a create request fails, by an error or by a response with     *)
(* status failed, each cache holding the optimistic record shows the       *)
(* record as failed with the error stored; and a cache showing the failed  *)
(* record of a request that ended in an error goes on showing it when the  *)
(* feed is fetched again.                                                  *)
SubmissionFailureTerminal ==
  [][\A k \in Mutations :
       /\ (mut[k].pc = "pending" /\ IsFailedMutation(mut'[k]))
            => /\ mut[k].optimisticId \in CachedIds(infinite)
                    => ShowsFailed(infinite', FailedId(mut'[k]))
               /\ mut[k].optimisticId \in CachedIds(regular)
                    => ShowsFailed(regular', FailedId(mut'[k]))
       /\ (mut[k].pc = "failed" /\ mut' = mut)
            => /\ ShowsFailed(infinite, mut[k].optimisticId)
                    => ShowsFailed(infinite', mut[k].optimisticId)
               /\ ShowsFailed(regular, mut[k].optimisticId)
                    => ShowsFailed(regular', mut[k].optimisticId)]_vars

----------------------------------------------------------------------------
(* The realtime channel of a session whose jobs are created while the      *)
(* client is subscribed                                                    *)

EventJobs == 1..MaxEventJobs

EventsInsert ==
  \E id \in EventJobs :
    InsertJob(id, ClientSession, ClientUser) /\ UNCHANGED besideStore

EventsNext ==
  \/ \E d \in TickSteps : Tick(d)
  \/ EventsInsert
  \/ Sweep
  \/ \E e \in events : RealtimeEvent(e)
  \/ \E j \in EventJobs : FetchServe(j)
  \/ \E j \in EventJobs : FetchDeliver(j)
  \/ \E j \in EventJobs : FetchThrows(j)
  \/ RefetchStart
  \/ InvalidateFire
  \/ RefetchServe
  \/ RefetchDeliver

SpecEvents == FeedInit /\ [][EventsNext]_vars

EventTriple(e) == <<e.eventType, e.id, e.status>>

(* C14: an event let through by the callback has a triple that no event    *)
(* let through before had, and a published event whose triple was not let  *)
(* through yet is not held back.                                           *)
EventsDeduplicated ==
  [][/\ lastEventRef' # lastEventRef => handled' # handled
     /\ \A e \in events :
          EventTriple(e) \notin handled => lastEventRef # EventKey(e)]_vars

(* C15: an event for a job that is not in the local view, and a failed     *)
(* single-job fetch, set the debounce timer to the full delay from now;    *)
(* the timer changes only by such a restart or by firing when it is due,   *)
(* and firing starts one resync.                                           *)
DebouncedFallback ==
  [][/\ \A e \in events :
          (/\ lastEventRef' # lastEventRef
           /\ lastEventRef' = EventKey(e)
           /\ handled' = handled \cup {EventTriple(e)}
           /\ e.eventType \in {"INSERT", "UPDATE"}
           /\ e.id \notin dismissed
           /\ e.id \notin CachedIds(infinite)
           /\ e.status \notin {"completed", "failed"})
            => timeoutRef' = now + DEBOUNCE_MS
     /\ \A id \in FeedIds :
          (/\ fetches[id].pc \in {"sent", "responded"}
           /\ fetches'[id].pc = "idle"
           /\ id \notin dismissed
           /\ \/ fetches[id].pc = "sent"
              \/ fetches[id].res.status # 200
              \/ id \notin CachedIds(infinite))
            => timeoutRef' = now + DEBOUNCE_MS
     /\ timeoutRef' # timeoutRef
          => \/ timeoutRef' = now + DEBOUNCE_MS
             \/ /\ timeoutRef' = NoTimeout
                /\ now >= timeoutRef
                /\ refetch'.pc = "sent"]_vars

----------------------------------------------------------------------------
(* The realtime channel of a session whose jobs are swept and then deleted *)
(* by their owner while the client is subscribed. The jobs are created at  *)
(* time 0 and the clock advances by the sweep's threshold; the single-job  *)
(* fetches that UPDATE events start stay in flight (SpecEvents has their   *)
(* answers)                                                                *)

RemovalNext ==
  \/ Tick(TWO_MINUTES)
  \/ now = 0 /\ EventsInsert
  \/ Sweep
  \/ \E j \in EventJobs : DeleteCall(1, j, ClientUser)
  \/ DeleteOutputs(1)
  \/ DeleteGeneration(1)
  \/ DeleteReturn(1)
  \/ \E e \in events : RealtimeEvent(e)
  \/ RefetchStart
  \/ RefetchServe
  \/ RefetchDeliver

SpecRemoval == FeedInit /\ [][RemovalNext]_vars

(* C25: a DELETE event for a job puts the job's id into the dismissed set  *)
(* and takes the job out of every page of the local feed, also when it     *)
(* arrives right after a DELETE event for another job: no DELETE event for *)
(* a job that is not dismissed yet is held back by the callback, and one   *)
(* that is let through leaves the job dismissed and out of the feed.       *)
DeleteEventsApplied ==
  [][\A e \in events :
       (e.eventType = "DELETE" /\ e.id \notin dismissed)
         => /\ lastEventRef # EventKey(e)
            /\ (lastEventRef' # lastEventRef
                 /\ handled' \ handled = {EventTriple(e)})
                 => /\ e.id \in dismissed'
                    /\ e.id \notin CachedIds(infinite')]_vars

----------------------------------------------------------------------------
(* A create request together with its job in the Job Store: the dispatcher *)
(* inserts the row of request k, with id MaxJobs + k, before it answers    *)
(* with that id. One request is followed, so that no two temporary ids     *)
(* meet                                                                    *)

DispatcherCreates(k) ==
  /\ mut[k].pc = "pending"
  /\ InsertJob(MaxJobs + k, ClientSession, ClientUser)
  /\ UNCHANGED besideStore

DispatcherAnswers(k) ==
  /\ MaxJobs + k \in DOMAIN generations
  /\ \E data \in GenerateResponses :
       /\ data.id = MaxJobs + k
       /\ data.status = generations[MaxJobs + k].status
       /\ MutationSuccess(k, data)

SubmitNext ==
  \/ \E d \in TickSteps : Tick(d)
  \/ Mutate(1)
  \/ DispatcherCreates(1)
  \/ DispatcherAnswers(1)
  \/ MutationError(1)
  \/ \E e \in events : RealtimeEvent(e)
  \/ RefetchStart
  \/ InvalidateFire
  \/ RefetchServe
  \/ RefetchDeliver

SpecSubmit == Init /\ [][SubmitNext]_vars

(* C26: the local feed never holds two records with the same job id, and   *)
(* never holds a job twice, once under the temporary id of its request and *)
(* once under the id the server gave it.                                   *)
NoDuplicateJobs ==
  /\ \A i, n \in 1..Len(CachedRows) :
       CachedRows[i].id = CachedRows[n].id => i = n
  /\ \A k \in Mutations :
       mut[k].pc = "pending" =>
         ~(/\ mut[k].optimisticId \in CachedIds(infinite)
           /\ MaxJobs + k \in CachedIds(infinite))

----------------------------------------------------------------------------
(* The client beside the resync handler and the sweep, with the scheduling *)
(* the browser and the server give: a poll that is due runs, a request in  *)
(* flight is answered and its answer delivered, a debounce timer that is   *)
(* due fires, and the clock advances. Realtime events carry no fairness:   *)
(* any of them may be lost                                                 *)

SpecConverge ==
  /\ Init
  /\ [][ClientNext]_vars
  /\ WF_vars(\E d \in TickSteps : Tick(d))
  /\ WF_vars(RefetchStart)
  /\ WF_vars(RefetchServe)
  /\ WF_vars(RefetchDeliver)
  /\ WF_vars(InvalidateFire)
  /\ WF_vars(\E j \in JobIds : FetchServe(j))
  /\ WF_vars(\E j \in JobIds : FetchDeliver(j))

ShowsStoreState(j) ==
  \E i \in 1..Len(CachedRows) :
    /\ CachedRows[i].id = j
    /\ CachedRows[i].status = generations[j].status
    /\ generations[j].status = "completed"
         => CachedRows[i].outputs = OutputsOf(j)

(* C27: a job that is terminal in the Job Store, in the local feed and not *)
(* dismissed is eventually shown in the local feed with the store's        *)
(* terminal status and, if completed, its outputs (or it has left the feed *)
(* or the store, or was dismissed); a debounce timer that is pending when  *)
(* the bounded clock has stopped counts as convergence.                    *)
ClientConverges ==
  \A j \in JobIds :
    (/\ j \in DOMAIN generations
     /\ IsTerminal(generations[j].status)
     /\ j \in CachedIds(infinite)
     /\ j \notin dismissed)
      ~> \/ j \notin DOMAIN generations
         \/ j \notin CachedIds(infinite)
         \/ j \in dismissed
         \/ ShowsStoreState(j)
         \/ timeoutRef # NoTimeout /\ ticks = MaxTicks

----------------------------------------------------------------------------
(* C28: with data in the cache, the feed query starts a poll only while    *)
(* some cached job has status processing, and whenever some cached job has *)
(* it and no fetch is in flight a poll can start; with no processing job   *)
(* in the cached data no poll can start.                                   *)
PollingWhileProcessing ==
  [][/\ (/\ infinite.defined
         /\ refetch.pc = "idle"
         /\ refetch'.pc = "sent"
         /\ timeoutRef' = timeoutRef)
          => \E i \in 1..Len(CachedRows) : CachedRows[i].status = "processing"
     /\ (infinite.defined /\ refetch.pc = "idle")
          => ((ENABLED RefetchStart)
                <=> \E i \in 1..Len(CachedRows) :
                      CachedRows[i].status = "processing")]_vars

(* the cache holds a job and none is processing: polling has stopped *)
PollingStopped ==
  /\ infinite.defined
  /\ refetch.pc = "idle"
  /\ Len(CachedRows) > 0
  /\ \A i \in 1..Len(CachedRows) : CachedRows[i].status # "processing"

----------------------------------------------------------------------------
(* C29: a create request that starts adds exactly one record to the local  *)
(* list, under a temporary id that no record had, and the response of a    *)
(* request leaves the optimistic records of the other pending requests in  *)
(* the list.                                                               *)
OwnOptimisticRecord ==
  [][\A k \in Mutations :
       /\ (mut[k].pc = "idle" /\ mut'[k].pc = "pending")
            => /\ mut'[k].optimisticId \notin CachedIds(regular)
               /\ Len(FlatMap(regular'.pages))
                    = Len(FlatMap(regular.pages)) + 1
       /\ (mut[k].pc = "pending" /\ mut'[k].pc = "succeeded")
            => \A other \in Mutations \ {k} :
                 (/\ mut[other].pc = "pending"
                  /\ mut[other].optimisticId \in CachedIds(regular))
                   => mut[other].optimisticId \in CachedIds(regular')]_vars

----------------------------------------------------------------------------
(* The refetch merge on its own: a cache of one page whose jobs were       *)
(* created at time 0, a fetched first page in hand, and the clock; the     *)
(* merge runs when the page is delivered                                   *)

MergeInit ==
  /\ InitStore /\ InitFeed /\ InitViewer /\ InitMut
  /\ LET Statuses == {"processing", "completed", "failed"}
         Listings ==
           UNION {{l \in [1..n -> FeedIds \X Statuses] :
                     \A i, k \in 1..n : l[i][1] = l[k][1] => i = k} :
                  n \in 0..MaxMergeRows}
         Row(entry) ==
           [id |-> entry[1], sessionId |-> ClientSession,
            userId |-> ClientUser, status |-> entry[2], createdAt |-> 0,
            outputs |-> <<>>, error |-> NoText, lastStep |-> ""]
     IN \E old \in Listings, new \in Listings :
          /\ infinite =
               InfiniteData(
                 <<[data |-> [i \in 1..Len(old) |->
                                JsonGeneration(Row(old[i]))],
                    nextCursor |-> NoCursor, hasMore |-> FALSE]>>)
          /\ refetch =
               [pc |-> "responded",
                res |-> [status |-> 200,
                         data |-> [i \in 1..Len(new) |-> Row(new[i])],
                         nextCursor |-> NoCursor, hasMore |-> FALSE]]
  /\ regular = NoData
  /\ dismissed = {}
  /\ lastEventRef = <<>>
  /\ handled = {}
  /\ fetchingRef = {}
  /\ timeoutRef = NoTimeout
  /\ fetches = [j \in FeedIds |-> IdleRequest]
  /\ sub = [sessionId |-> ClientSession]

SpecMerge ==
  /\ MergeInit
  /\ [][\/ \E d \in {1, RECENT_THRESHOLD_MS - 1} : Tick(d)
        \/ RefetchDeliver]_vars

(* C30: when a fetched page is merged into the cache, every job of the old *)
(* first page that is missing from the new first page, processing and      *)
(* created less than 30 seconds ago is kept, ahead of every job of the new *)
(* page; a missing job that is terminal or older is not kept.              *)
MergeKeepsRecentProcessing ==
  [][(refetch.pc = "responded" /\ refetch'.pc = "idle"
      /\ infinite.defined /\ Len(infinite.pages) > 0)
       => LET old == infinite.pages[1].data
              new == refetch.res.data
              merged == infinite'.pages[1].data
          IN \A i \in 1..Len(old) :
               LET missing == \A n \in 1..Len(new) : new[n].id # old[i].id
                   recent ==
                     /\ old[i].status = "processing"
                     /\ now - ParseDate(old[i].createdAt)
                          < RECENT_THRESHOLD_MS
               IN /\ (missing /\ recent)
                       => \E m \in 1..Len(merged) :
                            /\ merged[m] = old[i]
                            /\ \A n \in 1..Len(merged) :
                                 (\E k \in 1..Len(new) :
                                    new[k].id = merged[n].id) => m < n
                  /\ (missing /\ ~recent)
                       => old[i].id \notin CachedIds(infinite')]_vars

(* a merged first page longer than any fetched page: jobs were kept, and   *)
(* the first of them is processing                                         *)
MergeKeptJobs ==
  /\ refetch.pc = "idle"
  /\ infinite.defined
  /\ Len(infinite.pages[1].data) > MaxMergeRows
  /\ infinite.pages[1].data[1].status = "processing"

----------------------------------------------------------------------------
(* The two merges over records that carry a clientId: both caches hold one *)
(* page of the session's jobs, a fetched first page is in hand and the     *)
(* single-generation requests of the stored jobs are out. A job is cached  *)
(* twice only the way a create request leaves it, the local record first   *)
(* and the fetched row, which has no clientId, after it                    *)

HandleInit ==
  /\ InitStore /\ InitFeed /\ InitViewer /\ InitMut
  /\ LET Statuses == {"processing", "completed"}
         ClientIds == {"", "c1", "c2"}
         Cached ==
           UNION {{l \in [1..n -> FeedIds \X Statuses \X ClientIds] :
                     \A i, k \in 1..n :
                       (i < k /\ l[i][1] = l[k][1]) => l[k][3] = ""} :
                  n \in 0..MaxMergeRows}
         Fetched ==
           UNION {{l \in [1..n -> FeedIds \X Statuses] :
                     \A i, k \in 1..n : l[i][1] = l[k][1] => i = k} :
                  n \in 0..MaxMergeRows}
         Row(entry) ==
           [id |-> entry[1], sessionId |-> ClientSession,
            userId |-> ClientUser, status |-> entry[2], createdAt |-> 0,
            outputs |-> <<>>, error |-> NoText, lastStep |-> ""]
     IN \E old \in Cached, new \in Fetched :
          /\ infinite =
               InfiniteData(
                 <<[data |-> [i \in 1..Len(old) |->
                                [JsonGeneration(Row(old[i]))
                                   EXCEPT !.clientId = old[i][3]]],
                    nextCursor |-> NoCursor, hasMore |-> FALSE]>>)
          /\ regular = InfiniteData(<<[data |-> infinite.pages[1].data]>>)
          /\ refetch =
               [pc |-> "responded",
                res |-> [status |-> 200,
                         data |-> [i \in 1..Len(new) |-> Row(new[i])],
                         nextCursor |-> NoCursor, hasMore |-> FALSE]]
  /\ dismissed = {}
  /\ lastEventRef = <<>>
  /\ handled = {}
  /\ fetchingRef = JobIds
  /\ timeoutRef = NoTimeout
  /\ fetches = [j \in FeedIds |->
                  IF j \in JobIds THEN [pc |-> "sent"] ELSE IdleRequest]
  /\ sub = [sessionId |-> ClientSession]

SpecHandle ==
  /\ HandleInit
  /\ [][\/ RefetchDeliver
        \/ \E j \in JobIds : FetchServe(j)
        \/ \E j \in JobIds : FetchDeliver(j)]_vars

(* the clientIds the records of job id carry in a cache *)
ClientIdsOf(data, id) ==
  {FlatMap(data.pages)[i].clientId :
     i \in {n \in 1..Len(FlatMap(data.pages)) :
              FlatMap(data.pages)[n].id = id}} \ {""}

ClientIdsKept(before, after) ==
  \A id \in CachedIds(before) \cap CachedIds(after) :
    ClientIdsOf(before, id) # {}
      => /\ ClientIdsOf(after, id) # {}
         /\ ClientIdsOf(after, id) \subseteq ClientIdsOf(before, id)

----------------------------------------------------------------------------
(* Server-side hydration of the project page: the first page of the first  *)
(* session's generations is fetched with prisma and put into the infinite  *)
(* query cache before the client mounts                                    *)

(* showAllGenerations drops the userId condition of the where clause; the  *)
(* page passes projectData.ownerId === userId || projectData.isShared      *)
fetchGenerationsForHydration(sessionId, userId, showAllGenerations, limit) ==
  LET matching ==
        {j \in DOMAIN generations :
           /\ generations[j].sessionId = sessionId
           /\ showAllGenerations \/ generations[j].userId = userId}
      found == Take(OrderDesc(matching), limit + 1)
      hasMore == Len(found) > limit
      data == IF hasMore THEN Slice0(found, limit) ELSE found
      lastItem == generations[data[Len(data)]]
  IN [data |-> [i \in 1..Len(data) |-> WithOutputs(data[i])],
      nextCursor |-> IF hasMore /\ Len(data) > 0
                       THEN encodeCursor(lastItem.createdAt, lastItem.id)
                       ELSE NoCursor,
      hasMore |-> hasMore]

HydrationGet(sessionId, userId, showAllGenerations, limit) ==
  /\ fg.pc = "idle"
  /\ fg' = [pc |-> "done",
            req |-> [sessionId |-> sessionId, user |-> userId,
                     showAllGenerations |-> showAllGenerations,
                     limit |-> limit],
            res |-> fetchGenerationsForHydration(sessionId, userId,
                                                 showAllGenerations, limit)]
  /\ UNCHANGED <<storeVars, walk>>
  /\ UNCHANGED besideFeed

SpecHydrate ==
  /\ FeedInit
  /\ [][\/ FeedInsert
        \/ FeedTick
        \/ \E s \in Sessions, u \in Users, all \in BOOLEAN, n \in Limits :
             HydrationGet(s, u, all, n)
        \/ FeedReturn]_vars

(* C32: the hydration fetch answers what the feed read endpoint answers    *)
(* to a request of the same user for the same session and limit without a  *)
(* cursor: the same jobs in the same order, the same hasMore and the same  *)
(* nextCursor.                                                             *)
HydrationMirrorsFeed ==
  (fg.pc = "done" /\ "showAllGenerations" \in DOMAIN fg.req)
    => LET page == FeedPage(fg.req.sessionId, fg.req.user, NoCursor,
                            fg.req.limit)
       IN /\ fg.res.data = page.data
          /\ fg.res.hasMore = page.hasMore
          /\ fg.res.nextCursor = page.nextCursor

----------------------------------------------------------------------------
(* The single-generation fetch of one job that the sweep, the resync       *)
(* handler and the delete handler work on: a terminal UPDATE event starts  *)
(* the fetch, and the answer is the job, or 404 once the job is deleted    *)

SpecFetch ==
  /\ Init
  /\ [][\/ Tick(TWO_MINUTES)
        \/ \E j \in JobIds : ProviderSucceeds(j)
        \/ \E j \in JobIds : ResyncCall(1, j, ClientUser)
        \/ ResyncPoll(1)
        \/ ResyncCreateMany(1)
        \/ ResyncUpdateCompleted(1)
        \/ ResyncUpdateNoOutputs(1)
        \/ ResyncReturn(1)
        \/ Sweep
        \/ \E j \in JobIds : DeleteCall(1, j, ClientUser)
        \/ DeleteOutputs(1)
        \/ DeleteGeneration(1)
        \/ DeleteReturn(1)
        \/ \E e \in events : RealtimeEvent(e)
        \/ \E j \in JobIds : FetchServe(j)
        \/ \E j \in JobIds : FetchDeliver(j)
        \/ \E j \in JobIds : FetchThrows(j)]_vars

(* C35: a job has a single-generation fetch in flight exactly while its id *)
(* is in fetchingRef; while it is, no event starts another fetch for it    *)
(* and the one in flight only moves on to its answer and its end; when it  *)
(* ends, by a merge, by an error answer or by an exception, the id leaves  *)
(* fetchingRef.                                                            *)
OneFetchInFlight ==
  [][\A id \in FeedIds :
       /\ id \in fetchingRef <=> fetches[id].pc # "idle"
       /\ (id \in fetchingRef /\ fetches'[id] # fetches[id])
            => \/ fetches[id].pc = "sent" /\ fetches'[id].pc = "responded"
               \/ fetches'[id].pc = "idle"
       /\ (fetches[id].pc # "idle" /\ fetches'[id].pc = "idle")
            => id \notin fetchingRef'
       /\ (id \notin fetchingRef /\ id \in fetchingRef')
            => fetches'[id].pc = "sent"]_vars

(* the event for completed was handled while the fetch that the event for  *)
(* failed had started, answered before the job was completed, was still in *)
(* flight                                                                  *)
SecondEventWhileFetching ==
  \E id \in JobIds :
    /\ lastEventRef = <<"UPDATE", id, "completed">>
    /\ id \in fetchingRef
    /\ fetches[id].pc = "responded"
    /\ fetches[id].res.status = 200
    /\ fetches[id].res.generation.status = "failed"

----------------------------------------------------------------------------
(* The end of a realtime subscription: the effect's cleanup runs when the  *)
(* component unmounts or the session changes. The refs belong to the hook  *)
(* and are shared by the subscriptions that follow each other; a request   *)
(* awaited by fetchAndMergeGeneration is not cancelled                     *)

(* the cleanup of the effect; next is the session subscribed to afterwards *)
(* or none                                                                 *)
Unsubscribe(next) ==
  /\ sub.sessionId = ClientSession
  /\ timeoutRef' = NoTimeout
  /\ lastEventRef' = <<>>
  /\ fetchingRef' = {}
  /\ sub' = [sessionId |-> next]
  /\ UNCHANGED <<infinite, regular, dismissed, fetches, refetch>>
  /\ UNCHANGED <<storeVars, feedVars, viewerVars, mutVars, handled>>

(* the timer's callback once the session's queries have no observer:       *)
(* invalidateQueries with refetchType 'active' starts no fetch             *)
InvalidateFireAfterCleanup ==
  /\ sub.sessionId # ClientSession
  /\ timeoutRef # NoTimeout
  /\ now >= timeoutRef
  /\ timeoutRef' = NoTimeout
  /\ UNCHANGED <<infinite, regular, dismissed, lastEventRef, fetchingRef,
                 fetches, refetch>>
  /\ UNCHANGED <<besideClient, handled>>

CleanupNext ==
  \/ \E d \in TickSteps : Tick(d)
  \/ \E j \in JobIds : ProviderSucceeds(j)
  \/ \E j \in JobIds : ResyncCall(1, j, ClientUser)
  \/ ResyncPoll(1)
  \/ ResyncCreateMany(1)
  \/ ResyncUpdateCompleted(1)
  \/ ResyncUpdateNoOutputs(1)
  \/ ResyncReturn(1)
  \/ \E e \in events : sub.sessionId = ClientSession /\ RealtimeEvent(e)
  \/ \E j \in JobIds : FetchServe(j)
  \/ \E j \in JobIds : FetchDeliver(j)
  \/ \E j \in JobIds : FetchThrows(j)
  \/ sub.sessionId = ClientSession /\ RefetchStart
  \/ sub.sessionId = ClientSession /\ InvalidateFire
  \/ RefetchServe
  \/ RefetchDeliver
  \/ \E next \in {NoSession, "s2"} : Unsubscribe(next)
  \/ InvalidateFireAfterCleanup

SpecCleanup == Init /\ [][CleanupNext]_vars

(* C36: once the subscription of the session is cleaned up, no debounced  *)
(* resync that it scheduled fires: after the cleanup no step takes the     *)
(* timer from set to fired. Results of its fetches go to the caches of its *)
(* own session, the only caches of the model.                              *)
NoResyncAfterCleanup ==
  [][sub.sessionId # ClientSession
       => ~(timeoutRef # NoTimeout /\ timeoutRef' = NoTimeout)]_vars

----------------------------------------------------------------------------
(* Reference images (lib/reference-images, exercised by                    *)
(* tests/video-reference.spec.ts): a data URL is persisted through an      *)
(* uploader, which answers the public URL, and read back as a data URL.    *)
(* A data URL is <<"data:", mime, ";base64,">> followed by the payload's   *)
(* characters, each the index of a base64 digit, Pad standing for "="      *)

Pad == 64

RECURSIVE Base64Encode(_)
Base64Encode(bytes) ==
  IF bytes = <<>> THEN <<>>
  ELSE LET k == Min(3, Len(bytes))
           b(i) == IF i <= k THEN bytes[i] ELSE 0
           n == b(1) * 65536 + b(2) * 256 + b(3)
           digits == <<n \div 262144, (n \div 4096) % 64,
                       (n \div 64) % 64, n % 64>>
       IN [i \in 1..4 |-> IF i <= k + 1 THEN digits[i] ELSE Pad]
            \o Base64Encode(SubSeq(bytes, k + 1, Len(bytes)))

RECURSIVE Base64Decode(_)
Base64Decode(chars) ==
  IF Len(chars) < 4 THEN <<>>
  ELSE LET c(i) == IF chars[i] = Pad THEN 0 ELSE chars[i]
           n == c(1) * 262144 + c(2) * 4096 + c(3) * 64 + c(4)
           k == 3 - Cardinality({i \in 1..4 : chars[i] = Pad})
           octets == <<n \div 65536, (n \div 256) % 256, n % 256>>
       IN SubSeq(octets, 1, k) \o Base64Decode(SubSeq(chars, 5, Len(chars)))

DataUrl(mimeType, base64) == <<"data:", mimeType, ";base64,">> \o base64

(* the uploader of the test: it answers a URL made of the path *)
UploaderUrl(path) == <<"https://storage.local/">> \o path

(* persistReferenceImage(dataUrl, userId, referenceId, uploader): the      *)
(* pointer that is stored with the job instead of the inline image         *)
persistReferenceImage(dataUrl, userId, referenceId) ==
  LET path == <<"references", userId, referenceId>> IN
  [referenceImageId |-> referenceId,
   referenceImagePath |-> path,
   referenceImageUrl |-> UploaderUrl(path),
   referenceImageMimeType |-> dataUrl[2]]

downloadReferenceImageWithTypeOfResponse(url, mimeType, response) ==
  DataUrl(response.contentType, Base64Encode(response.body))

(* downloadReferenceImageAsDataUrl(url, mimeType, fetch): the body of the  *)
(* answer, encoded, under the given MIME type                              *)
downloadReferenceImageAsDataUrl(url, mimeType, response) ==
  DataUrl(mimeType, Base64Encode(response.body))

(* the test's call of persistReferenceImage; the storage then holds the    *)
(* image's bytes under the URL                                             *)
PersistReference ==
  /\ ref.pc = "idle"
  /\ \E bytes \in UNION {[1..n -> {0, 65, 255}] : n \in 0..MaxBytes},
        mimeType \in {"image/png", "image/jpeg"},
        referenceId \in {"ref-1", "ref-2"} :
       LET dataUrl == DataUrl(mimeType, Base64Encode(bytes))
           pointer == persistReferenceImage(dataUrl, "user-test", referenceId)
       IN ref' = [pc |-> "persisted", dataUrl |-> dataUrl,
                  referenceId |-> referenceId,
                  uploads |-> [bucket |-> "generated-images",
                               path |-> pointer.referenceImagePath,
                               url |-> UploaderUrl(pointer.referenceImagePath)],
                  stored |-> Base64Decode(SubSeq(dataUrl, 4, Len(dataUrl))),
                  pointer |-> pointer, hydrated |-> <<>>]
  /\ UNCHANGED <<storeVars, feedVars, clientVars, viewerVars, mut, sub,
                 handled>>

(* the test's call of downloadReferenceImageAsDataUrl with the pointer's   *)
(* URL; the storage answers application/octet-stream                       *)
DownloadReference ==
  /\ ref.pc = "persisted"
  /\ LET response == [contentType |-> "application/octet-stream",
                      body |-> ref.stored]
     IN ref' = [ref EXCEPT
                  !.pc = "hydrated",
                  !.hydrated = downloadReferenceImageAsDataUrl(
                               ref.pointer.referenceImageUrl,
                               ref.pointer.referenceImageMimeType, response)]
  /\ UNCHANGED <<storeVars, feedVars, clientVars, viewerVars, mut, sub,
                 handled>>

SpecReference == Init /\ [][PersistReference \/ DownloadReference]_vars

====
